---------------------------- MODULE Spec2Model ----------------------------
(***************************************************************************)
(* Model of src/src/PortfolioAnalyzer.jsx: the ingestion normalizer        *)
(* (processRawRows), the analytics engine (the `analysis` useMemo) and the *)
(* component state that feeds them (data, loading, error,                  *)
(* simulateCleanup).  The file holds two copies of the component; the      *)
(* parsing and analytics code of both copies is the same, and the line     *)
(* numbers quoted here are those of the second copy.                       *)
(*                                                                         *)
(* JavaScript values.  A value is a record [t, n, d, s]:                   *)
(*   t = "num"    the finite number n/d (d > 0, in lowest terms);          *)
(*   t = "nan"    NaN;                                                     *)
(*   t = "undef"  undefined;                                               *)
(*   t = "str"    the string whose characters are the tuple s;             *)
(*   t = "fn"     a built-in inherited from Object.prototype.              *)
(* Numbers are exact rationals: the rounding error of IEEE doubles is not  *)
(* modelled.  Strings are tuples of one-character strings so that trim,    *)
(* replace, includes and parseFloat are computed character by character.   *)
(***************************************************************************)
EXTENDS Integers, Sequences, FiniteSets, TLC

VARIABLES
    data,             \* useState(null), line 1132
    loading,          \* useState(false), line 1133
    error,            \* useState(null), line 1134
    simulateCleanup,  \* useState(false), line 1139
    xlsxReady,        \* window.XLSX is defined, lines 1153-1171
    reading,          \* the FileReaders whose read has not ended yet, the
                      \* files they read in the order of their start
    timer,            \* the setTimeout of loadSampleData is pending
    failed,           \* the number of FileReaders whose read ended in error
    analysis,         \* the value of the `analysis` useMemo of the last render
    given,            \* history: the Holdings as the last setData received them
    memo,             \* history: per flag value, the first analysis of `given`
    lastStarted,      \* history: the load started last, while a load is pending
    overlapped        \* history: a load was started while another was pending

vars == <<data, loading, error, simulateCleanup, xlsxReady, reading,
          timer, failed, analysis, given, memo, lastStarted, overlapped>>

-----------------------------------------------------------------------------
(* Characters and strings *)

UpperChars == <<"A","B","C","D","E","F","G","H","I","J","K","L","M",
                "N","O","P","Q","R","S","T","U","V","W","X","Y","Z">>
LowerChars == <<"a","b","c","d","e","f","g","h","i","j","k","l","m",
                "n","o","p","q","r","s","t","u","v","w","x","y","z">>
DigitChars == <<"0","1","2","3","4","5","6","7","8","9">>

IsDigit(c) == \E i \in 1..10 : DigitChars[i] = c
DigitVal(c) == (CHOOSE i \in 1..10 : DigitChars[i] = c) - 1
IsSpace(c) == c \in {" ", "\t", "\n", "\r"}

\* String.prototype.toLowerCase, one character
LowerChar(c) ==
    IF \E i \in 1..26 : UpperChars[i] = c
    THEN LowerChars[CHOOSE i \in 1..26 : UpperChars[i] = c]
    ELSE c

\* String.prototype.toLowerCase
toLowerCase(s) == [i \in 1..Len(s) |-> LowerChar(s[i])]

\* String.prototype.includes
includes(s, sub) ==
    \E i \in 0..(Len(s) - Len(sub)) : SubSeq(s, i + 1, i + Len(sub)) = sub

\* String.prototype.trim
trim(s) ==
    LET keep == {i \in 1..Len(s) : ~IsSpace(s[i])}
    IN  IF keep = {} THEN <<>>
        ELSE SubSeq(s, CHOOSE i \in keep : \A j \in keep : i <= j,
                       CHOOSE i \in keep : \A j \in keep : i >= j)

\* s.replace(/^"|"$/g, ''): one leading and one trailing straight quote go
unquote(s) ==
    LET a == IF Len(s) > 0 /\ s[1] = "\"" THEN 1 ELSE 0
        b == IF Len(s) > a /\ s[Len(s)] = "\"" THEN 1 ELSE 0
    IN  SubSeq(s, 1 + a, Len(s) - b)

\* s.replace(/c/g, '')
removeAll(s, c) == SelectSeq(s, LAMBDA x : x # c)

\* the members of a set of integers in ascending order
RECURSIVE Ascending(_)
Ascending(S) ==
    IF S = {} THEN <<>>
    ELSE LET m == CHOOSE x \in S : \A y \in S : x <= y
         IN  <<m>> \o Ascending(S \ {m})

K_SchemeName == <<"S","c","h","e","m","e"," ","N","a","m","e">>
K_Category == <<"C","a","t","e","g","o","r","y">>
K_SubCategory == <<"S","u","b","-","c","a","t","e","g","o","r","y">>
K_AMC == <<"A","M","C">>
K_Units == <<"U","n","i","t","s">>
K_InvestedValue == <<"I","n","v","e","s","t","e","d"," ","V","a","l","u","e">>
K_CurrentValue == <<"C","u","r","r","e","n","t"," ","V","a","l","u","e">>
K_Returns == <<"R","e","t","u","r","n","s">>
K_XIRR == <<"X","I","R","R">>
K_currentNAV == <<"_","c","u","r","r","e","n","t","N","A","V">>
K_avgBuyNAV == <<"_","a","v","g","B","u","y","N","A","V">>
K_absReturn == <<"_","a","b","s","R","e","t","u","r","n">>
K_count == <<"c","o","u","n","t">>
S_scheme_name == <<"s","c","h","e","m","e"," ","n","a","m","e">>
S_current_value == <<"c","u","r","r","e","n","t"," ","v","a","l","u","e">>
S_Other == <<"O","t","h","e","r">>
S_toString == <<"t","o","S","t","r","i","n","g">>
S_valueOf == <<"v","a","l","u","e","O","f">>
S_Infinity == <<"I","n","f","i","n","i","t","y">>
S_nativeCode == <<"f","u","n","c","t","i","o","n"," ","O","b","j","e","c","t","(",")"," ","{"," ","[","n","a","t","i","v","e"," ","c","o","d","e","]"," ","}">>
S_constructor == <<"c","o","n","s","t","r","u","c","t","o","r">>

-----------------------------------------------------------------------------
(* JavaScript values *)

RECURSIVE Gcd(_, _)
Gcd(a, b) == IF b = 0 THEN a ELSE Gcd(b, a % b)

Abs(x) == IF x < 0 THEN -x ELSE x

\* the number n/d, d # 0, in lowest terms with a positive denominator
Frac(n, d) ==
    LET g == Gcd(Abs(n), Abs(d))
        sgn == IF d < 0 THEN -1 ELSE 1
    IN  [t |-> "num", n |-> sgn * (n \div g), d |-> Abs(d) \div g, s |-> <<>>]

Num(n) == [t |-> "num", n |-> n, d |-> 1, s |-> <<>>]
NaN == [t |-> "nan", n |-> 0, d |-> 1, s |-> <<>>]
Undefined == [t |-> "undef", n |-> 0, d |-> 1, s |-> <<>>]
Str(s) == [t |-> "str", n |-> 0, d |-> 1, s |-> s]
Builtin == [t |-> "fn", n |-> 0, d |-> 1, s |-> <<>>]
\* Infinity (sgn = 1) and -Infinity (sgn = -1)
Infinite(sgn) == [t |-> "inf", n |-> sgn, d |-> 1, s |-> <<>>]

\* a finite number
IsNum(v) == v.t = "num"

\* ToBoolean
Truthy(v) ==
    CASE v.t = "num" -> v.n # 0
      [] v.t = "inf" -> TRUE
      [] v.t = "str" -> v.s # <<>>
      [] v.t = "fn" -> TRUE
      [] OTHER -> FALSE

\* a || b
Or(a, b) == IF Truthy(a) THEN a ELSE b

\* ToNumber of the operands the engine's arithmetic meets: undefined is NaN
ToNumber(v) == IF v.t \in {"num", "inf"} THEN v ELSE NaN

\* the sign of a number: -1, 0 or 1
Sign(v) == IF v.n < 0 THEN -1 ELSE IF v.n > 0 THEN 1 ELSE 0

\* -a
Negated(v) == IF v.t \in {"num", "inf"} THEN [v EXCEPT !.n = -v.n] ELSE NaN

\* a + b on numbers (undefined + number is NaN)
Add(a, b) ==
    LET x == ToNumber(a)
        y == ToNumber(b)
    IN  IF IsNum(x) /\ IsNum(y) THEN Frac(x.n * y.d + y.n * x.d, x.d * y.d)
        ELSE IF x.t = "nan" \/ y.t = "nan" THEN NaN
        ELSE IF IsNum(y) THEN x
        ELSE IF IsNum(x) THEN y
        ELSE IF x.n = y.n THEN x ELSE NaN

\* a - b
Sub(a, b) ==
    LET x == ToNumber(a)
        y == ToNumber(b)
    IN  IF IsNum(x) /\ IsNum(y) THEN Frac(x.n * y.d - y.n * x.d, x.d * y.d)
        ELSE Add(x, Negated(y))

\* a * b
Mul(a, b) ==
    LET x == ToNumber(a)
        y == ToNumber(b)
    IN  IF IsNum(x) /\ IsNum(y) THEN Frac(x.n * y.n, x.d * y.d)
        ELSE IF x.t = "nan" \/ y.t = "nan" \/ Sign(x) * Sign(y) = 0 THEN NaN
        ELSE Infinite(Sign(x) * Sign(y))

\* a / b, used only behind a guard that makes b > 0
Div(a, b) ==
    LET x == ToNumber(a)
        y == ToNumber(b)
    IN  IF IsNum(x) /\ IsNum(y) /\ y.n # 0 THEN Frac(x.n * y.d, x.d * y.n)
        ELSE IF IsNum(x) /\ y.t = "inf" THEN Num(0)
        ELSE IF x.t = "inf" /\ IsNum(y) /\ y.n # 0 THEN Infinite(Sign(x) * Sign(y))
        ELSE NaN

\* a < b, a > b, a >= b: false as soon as an operand is NaN or undefined
Lt(a, b) ==
    /\ a.t \in {"num", "inf"} /\ b.t \in {"num", "inf"}
    /\ IF IsNum(a) /\ IsNum(b) THEN a.n * b.d < b.n * a.d
       ELSE IF a.t = "inf" THEN a.n < 0 /\ b # a
       ELSE b.n > 0
Gt(a, b) == Lt(b, a)
Ge(a, b) == a.t \in {"num", "inf"} /\ b.t \in {"num", "inf"} /\ ~Lt(a, b)

\* the decimal digits of a natural number
RECURSIVE NatStr(_)
NatStr(n) == IF n < 10 THEN <<DigitChars[n + 1]>>
             ELSE NatStr(n \div 10) \o <<DigitChars[(n % 10) + 1]>>

\* String(v) for strings, integers and numbers with one fractional digit
String(v) ==
    CASE v.t = "str" -> v.s
      [] v.t = "num" ->
            LET a == Abs(v.n)
                sign == IF v.n < 0 THEN <<"-">> ELSE <<>>
            IN  IF v.d = 1 THEN sign \o NatStr(a)
                ELSE sign \o NatStr(a \div v.d) \o <<".">>
                          \o NatStr(((a % v.d) * 10) \div v.d)
      [] v.t = "nan" -> <<"N","a","N">>
      [] v.t = "inf" -> (IF v.n < 0 THEN <<"-">> ELSE <<>>) \o S_Infinity
      [] v.t = "fn" -> S_nativeCode
      [] OTHER -> <<"u","n","d","e","f","i","n","e","d">>

\* the length of the longest run of digits of s that starts at position i
RECURSIVE DigitRun(_, _)
DigitRun(s, i) == IF i <= Len(s) /\ IsDigit(s[i]) THEN 1 + DigitRun(s, i + 1) ELSE 0

\* the natural number written by the digits s[i..i+k-1]
RECURSIVE DigitsVal(_, _, _)
DigitsVal(s, i, k) ==
    IF k = 0 THEN 0 ELSE DigitsVal(s, i, k - 1) * 10 + DigitVal(s[i + k - 1])

RECURSIVE Pow10(_)
Pow10(k) == IF k = 0 THEN 1 ELSE 10 * Pow10(k - 1)

\* parseFloat of a string: leading white space, an optional sign, digits, an
\* optional fraction; the longest such prefix is the number and what follows
\* is ignored; the word Infinity in place of the digits reads as Infinity;
\* NaN when there is neither.  (No exponent.)
\* The steps of the parse, each with what the steps before it found: sgn is
\* the sign, p the position after the sign, k the number of digits before the
\* point, f the number of digits after it.
ParseValue(s, sgn, p, k, f) ==
    IF k + f = 0 THEN NaN
    ELSE Frac(sgn * (DigitsVal(s, p, k) * Pow10(f) + DigitsVal(s, p + k + 1, f)),
              Pow10(f))

ParseFraction(s, sgn, p, k) ==
    IF Len(s) >= p + Len(S_Infinity) - 1
       /\ SubSeq(s, p, p + Len(S_Infinity) - 1) = S_Infinity
    THEN Infinite(sgn)
    ELSE ParseValue(s, sgn, p, k,
                    IF p + k <= Len(s) /\ s[p + k] = "." THEN DigitRun(s, p + k + 1)
                    ELSE 0)

ParseSigned(s) ==
    IF Len(s) > 0 /\ s[1] \in {"-", "+"}
    THEN ParseFraction(s, IF s[1] = "-" THEN -1 ELSE 1, 2, DigitRun(s, 2))
    ELSE ParseFraction(s, 1, 1, DigitRun(s, 1))

parseFloatStr(s0) == ParseSigned(trim(s0))

\* parseFloat(val): a number is converted to its string and read back
parseFloat(v) ==
    CASE v.t = "str" -> parseFloatStr(v.s)
      [] v.t \in {"num", "inf"} -> v
      [] OTHER -> NaN


-----------------------------------------------------------------------------
(* Ingestion normalizer: processRawRows, lines 1055-1109.  A grid is a     *)
(* sequence of rows, a row a sequence of cells, a cell a string or a       *)
(* number.  A Holding is the row object: a function from the header texts  *)
(* to values.                                                              *)

\* the own property obj[k] of a row object, undefined when there is none
Get(obj, k) == IF k \in DOMAIN obj THEN obj[k] ELSE Undefined

\* obj[k] = v
SetProp(obj, k, v) == [x \in (DOMAIN obj) \cup {k} |-> IF x = k THEN v ELSE obj[x]]

\* JSON.stringify of a string: quotes and backslashes are escaped
RECURSIVE JsonEscape(_)
JsonEscape(s) ==
    IF s = <<>> THEN <<>>
    ELSE (IF Head(s) \in {"\"", "\\"} THEN <<"\\", Head(s)>> ELSE <<Head(s)>>)
         \o JsonEscape(Tail(s))

JsonCell(v) ==
    CASE v.t = "str" -> <<"\"">> \o JsonEscape(v.s) \o <<"\"">>
      [] v.t = "num" -> String(v)
      [] OTHER -> <<"n","u","l","l">>

RECURSIVE JsonCells(_)
JsonCells(row) ==
    IF row = <<>> THEN <<>>
    ELSE IF Len(row) = 1 THEN JsonCell(row[1])
    ELSE JsonCell(Head(row)) \o <<",">> \o JsonCells(Tail(row))

\* JSON.stringify(rows[i]), line 1059
JsonStringify(row) == <<"[">> \o JsonCells(row) \o <<"]">>

\* the test of line 1060
IsHeaderRow(row) ==
    LET rowStr == toLowerCase(JsonStringify(row))
    IN  includes(rowStr, S_scheme_name) /\ includes(rowStr, S_current_value)

\* a scan without the break of line 1063: the last row that passes the test
FindHeaderLast(rows) ==
    LET found == {i \in 1..Len(rows) : IsHeaderRow(rows[i])}
    IN  IF found = {} THEN 0 ELSE CHOOSE i \in found : \A j \in found : i >= j

\* the scan of lines 1056-1065, which stops at the first row that passes the
\* test: the index found, or 0 (for -1)
FindHeader(rows) ==
    LET found == {i \in 1..Len(rows) : IsHeaderRow(rows[i])}
    IN  IF found = {} THEN 0 ELSE CHOOSE i \in found : \A j \in found : i <= j

\* line 1071
HeaderText(h) == unquote(trim(String(h)))

NumericColumns == {K_InvestedValue, K_CurrentValue, K_Returns, K_Units}

\* a coercion that finds the column by its name in lower case
CoerceAnyCase(header, val) ==
    LET empty == val.t = "undef" \/ (val.t = "str" /\ val.s = <<>>)
    IN  IF toLowerCase(header) \in {toLowerCase(k) : k \in NumericColumns}
        THEN IF empty THEN Num(0)
             ELSE IF val.t = "str" THEN parseFloat(Str(removeAll(val.s, ",")))
             ELSE parseFloat(val)
        ELSE IF toLowerCase(header) = toLowerCase(K_XIRR)
        THEN IF empty THEN Num(0)
             ELSE IF val.t = "str"
                  THEN parseFloat(Str(removeAll(removeAll(val.s, "%"), ",")))
             ELSE parseFloat(val)
        ELSE val

\* lines 1087-1092 and 1093-1101: the coercion of one cell by column name
Coerce(header, val) ==
    LET empty == val.t = "undef" \/ (val.t = "str" /\ val.s = <<>>)
    IN  IF header \in NumericColumns
        THEN IF empty THEN Num(0)
             ELSE IF val.t = "str" THEN parseFloat(Str(removeAll(val.s, ",")))
             ELSE parseFloat(val)
        ELSE IF header = K_XIRR
        THEN IF empty THEN Num(0)
             ELSE IF val.t = "str"
                  THEN parseFloat(Str(removeAll(removeAll(val.s, "%"), ",")))
             ELSE parseFloat(val)
        ELSE val

\* lines 1081-1085: the cell under header number index, trimmed and unquoted
CellAt(row, index) ==
    LET val == IF index <= Len(row) THEN row[index] ELSE Undefined
    IN  IF val.t = "str" THEN Str(unquote(trim(val.s))) ELSE val

\* lines 1079-1104: rowObj; a header text that occurs twice keeps the value
\* of its last column
RowObject(headers, row) ==
    [h \in {headers[i] : i \in 1..Len(headers)} |->
        LET index == CHOOSE i \in 1..Len(headers) :
                        /\ headers[i] = h
                        /\ \A j \in 1..Len(headers) : headers[j] = h => j <= i
        IN  Coerce(h, CellAt(row, index))]

\* a loop that skips only the rows without any cell
ExtractRowsOfOneCell(headers, rows, headerIndex) ==
    SelectSeq([i \in 1..Len(rows) |->
                  IF i > headerIndex /\ Len(rows[i]) >= 1
                  THEN RowObject(headers, rows[i]) ELSE <<>>],
              LAMBDA rowObj : Truthy(Get(rowObj, K_SchemeName)))

\* lines 1075-1107: the row objects pushed to data, in the order of the rows
ExtractRows(headers, rows, headerIndex) ==
    SelectSeq([i \in 1..Len(rows) |->
                  IF i > headerIndex /\ Len(rows[i]) >= 2
                  THEN RowObject(headers, rows[i]) ELSE <<>>],
              LAMBDA rowObj : Truthy(Get(rowObj, K_SchemeName)))

\* lines 1069-1071: the header texts of the row at headerIndex
Headers(rawHeaders) == [i \in 1..Len(rawHeaders) |-> HeaderText(rawHeaders[i])]

\* lines 1067-1109, with the index found by the scan
RowsBelow(rows, headerIndex) ==
    IF headerIndex = 0 THEN <<>>
    ELSE ExtractRows(Headers(rows[headerIndex]), rows, headerIndex)

processRawRows(rows) == RowsBelow(rows, FindHeader(rows))


\* the pieces of s between the positions of cuts, in order; the characters at
\* the cuts are dropped
Pieces(s, cuts) ==
    LET cs == Ascending(cuts) \o <<Len(s) + 1>>
    IN  [k \in 1..Len(cs) |-> SubSeq(s, (IF k = 1 THEN 0 ELSE cs[k - 1]) + 1, cs[k] - 1)]

\* text.split('\n'), line 1112
SplitLines(text) == Pieces(text, {i \in 1..Len(text) : text[i] = "\n"})

\* lines 1115-1123, the loop over the characters of one line.  Every quote
\* flips inQuotes and is dropped, so inQuotes at character i is the parity of
\* the quotes before it; a comma read while inQuotes is false ends a cell.
CsvLine(line) ==
    LET inQuotes(i) == Cardinality({j \in 1..(i - 1) : line[j] = "\""}) % 2 = 1
        cells == Pieces(line, {i \in 1..Len(line) : line[i] = "," /\ ~inQuotes(i)})
    IN  [k \in 1..Len(cells) |-> Str(removeAll(cells[k], "\""))]

\* lines 1112-1125: the rows handed to processRawRows
CsvRows(text) ==
    LET lines == SplitLines(text)
    IN  [i \in 1..Len(lines) |-> CsvLine(lines[i])]

\* lines 1111-1127
parseCSVText(text) == processRawRows(CsvRows(text))


-----------------------------------------------------------------------------
(* Plain objects used as dictionaries.  byCategory, byAMC,                 *)
(* subCategoryCounts, categoryXIRR, smartGroups and group.funds are object *)
(* literals ({}), indexed by cell text.  Such an object is a sequence of   *)
(* [k, v] pairs in insertion order; a key it does not own is looked up in  *)
(* Object.prototype, where the names of ObjectPrototypeKeys are found.     *)

ObjectPrototypeKeys == {S_constructor, S_toString, S_valueOf}

HasOwn(obj, k) == \E i \in 1..Len(obj) : obj[i].k = k
Own(obj, k) == obj[CHOOSE i \in 1..Len(obj) : obj[i].k = k].v
Put(obj, k, v) ==
    IF HasOwn(obj, k)
    THEN [i \in 1..Len(obj) |-> IF obj[i].k = k THEN [k |-> k, v |-> v] ELSE obj[i]]
    ELSE Append(obj, [k |-> k, v |-> v])

\* obj[k] read as a value: own, else inherited, else undefined
Lookup(obj, k) ==
    IF HasOwn(obj, k) THEN Own(obj, k)
    ELSE IF k \in ObjectPrototypeKeys THEN Builtin
    ELSE Undefined

\* a + b: concatenation as soon as an operand is a string or a function
Plus(a, b) ==
    IF a.t \in {"str", "fn"} \/ b.t \in {"str", "fn"}
    THEN Str(String(a) \o String(b))
    ELSE Add(a, b)

\* an array index: such keys are enumerated first, in ascending order
IsArrayIndex(k) ==
    /\ k # <<>>
    /\ \A i \in 1..Len(k) : IsDigit(k[i])
    /\ Len(k) = 1 \/ k[1] # "0"

\* Object.keys(obj)
ObjectKeys(obj) ==
    LET keys == [i \in 1..Len(obj) |-> obj[i].k]
        idx == Ascending({DigitsVal(keys[i], 1, Len(keys[i])) :
                             i \in {j \in 1..Len(keys) : IsArrayIndex(keys[j])}})
    IN  [i \in 1..Len(idx) |-> NatStr(idx[i])]
        \o SelectSeq(keys, LAMBDA k : ~IsArrayIndex(k))

\* Array.prototype.sort((a, b) => b.key - a.key) on [key, val] pairs: a
\* stable sort; a difference that is NaN compares as equal
\* an insertion that puts x before the elements of equal key
InsertDescBeforeEqual(s, x) ==
    LET stay == {i \in 1..Len(s) : Gt(s[i].key, x.key)}
        p == IF stay = {} THEN 0 ELSE CHOOSE i \in stay : \A j \in stay : i >= j
    IN  SubSeq(s, 1, p) \o <<x>> \o SubSeq(s, p + 1, Len(s))

InsertDesc(s, x) ==
    LET stay == {i \in 1..Len(s) : ~Gt(x.key, s[i].key)}
        p == IF stay = {} THEN 0 ELSE CHOOSE i \in stay : \A j \in stay : i >= j
    IN  SubSeq(s, 1, p) \o <<x>> \o SubSeq(s, p + 1, Len(s))

RECURSIVE SortDesc(_)
SortDesc(ps) ==
    IF ps = <<>> THEN <<>>
    ELSE InsertDesc(SortDesc(SubSeq(ps, 1, Len(ps) - 1)), ps[Len(ps)])

Vals(ps) == [i \in 1..Len(ps) |-> ps[i].val]

\* arr.reduce((acc, c) => acc + c, 0) with the + of numbers, over vs[lo..hi]
\* from left to right; once acc is NaN every further sum is NaN
RECURSIVE SumFold(_, _, _, _)
SumFold(acc, vs, lo, hi) ==
    IF lo > hi \/ acc.t = "nan" THEN acc
    ELSE IF lo = hi THEN Add(acc, vs[lo])
    ELSE SumFold(SumFold(acc, vs, lo, (lo + hi) \div 2), vs, (lo + hi) \div 2 + 1, hi)

SumSeq(vs) == SumFold(Num(0), vs, 1, Len(vs))

\* Math.round: the nearest integer, halves upwards
MathRound(v) == (2 * v.n + v.d) \div (2 * v.d)

\* parseFloat(x.toFixed(2)): x to the nearest hundredth, halves away from 0
toFixed2(v) ==
    IF v.t = "inf" THEN v
    ELSE IF ~IsNum(v) THEN NaN
    ELSE LET m == (2 * 100 * Abs(v.n) + v.d) \div (2 * v.d)
         IN  Frac(IF v.n < 0 THEN -m ELSE m, 100)


-----------------------------------------------------------------------------
(* Analytics engine: the `analysis` useMemo, lines 1228-1399 *)

S_LargeCap == <<"L","a","r","g","e"," ","C","a","p">>
S_MidCap == <<"M","i","d"," ","C","a","p">>
S_SmallCap == <<"S","m","a","l","l"," ","C","a","p">>
S_FlexiCap == <<"F","l","e","x","i"," ","C","a","p">>
S_ELSS == <<"E","L","S","S">>
S_Debt == <<"D","e","b","t">>
S_Liquid == <<"L","i","q","u","i","d">>
S_Sectoral == <<"S","e","c","t","o","r","a","l">>
S_Large == <<"L","a","r","g","e">>
S_Small == <<"S","m","a","l","l">>
S_Mid == <<"M","i","d">>
S_Flexi == <<"F","l","e","x","i">>

\* lines 1029-1039
BENCHMARKS ==
    << [k |-> S_LargeCap, v |-> [name |-> "Nifty 50", return |-> Frac(135, 10)]],
       [k |-> S_MidCap, v |-> [name |-> "Nifty Midcap 150", return |-> Frac(165, 10)]],
       [k |-> S_SmallCap, v |-> [name |-> "Nifty Smallcap 250", return |-> Num(19)]],
       [k |-> S_FlexiCap, v |-> [name |-> "Nifty 500", return |-> Num(15)]],
       [k |-> S_ELSS, v |-> [name |-> "Nifty 500", return |-> Num(15)]],
       [k |-> S_Debt, v |-> [name |-> "FD / Debt Index", return |-> Num(7)]],
       [k |-> S_Liquid, v |-> [name |-> "Liquid Index", return |-> Num(6)]],
       [k |-> S_Sectoral, v |-> [name |-> "Nifty 500", return |-> Num(15)]],
       [k |-> S_Other, v |-> [name |-> "Inflation", return |-> Num(6)]] >>

\* the clutter threshold of lines 1246, 1250 and 1286
ClutterLimit == 5000
\* the consolidation threshold of line 1355
ConsolidationLimit == 2
\* the size thresholds of lines 1375 and 1376
SizeLimit1 == 20
SizeLimit2 == 40

\* lines 1304-1306 and 1240: the absolute return in percent
AbsReturn(currVal, invVal) ==
    IF Gt(invVal, Num(0))
    THEN Mul(Div(Sub(currVal, invVal), invVal), Num(100))
    ELSE Num(0)

\* The objects live in a heap (a sequence; a reference is an index), so that
\* a write through one reference is seen through every other reference to the
\* same object.  The objects of data are 1..n; the engine allocates after them.

\* lines 1232-1241: the fields of the object the map callback returns
Mapped(item) ==
    LET units == Or(Get(item, K_Units), Num(0))
        currVal == Or(Get(item, K_CurrentValue), Num(0))
        invVal == Or(Get(item, K_InvestedValue), Num(0))
        nav == IF Gt(units, Num(0)) THEN Div(currVal, units) ELSE Num(0)
        buy == IF Gt(units, Num(0)) THEN Div(invVal, units) ELSE Num(0)
    IN  SetProp(SetProp(SetProp(item, K_currentNAV, nav), K_avgBuyNAV, buy),
                K_absReturn, AbsReturn(currVal, invVal))

\* a map callback that adds the three fields to the item itself
MapItemInPlace(heap, id) ==
    [heap |-> [heap EXCEPT ![id] = Mapped(heap[id])], ref |-> id]

\* lines 1231-1242: the map callback on item id returns { ...item, ... }, a
\* new object
MapItem(heap, id) ==
    [heap |-> Append(heap, Mapped(heap[id])), ref |-> Len(heap) + 1]

\* data.map(...), line 1231: st.refs is the array built so far, one reference
\* for each of the items 1..Len(st.refs); the callback runs on the items up
\* to hi
RECURSIVE MapAll(_, _)
MapAll(st, hi) ==
    LET lo == Len(st.refs) + 1
        m == MapItem(st.heap, lo)
    IN  IF lo > hi THEN st
        ELSE IF lo = hi THEN [heap |-> m.heap, refs |-> Append(st.refs, m.ref)]
        ELSE MapAll(MapAll(st, (lo + hi) \div 2), hi)

\* line 1296: group.funds[schemeName] = { ...item, count: 1 }, a new object
NewFund(heap, id) ==
    [heap |-> Append(heap, SetProp(heap[id], K_count, Num(1))), ref |-> Len(heap) + 1]

\* a merge that keeps the mean of the percentages of the rows
MergeFundAveraged(heap, e, id) ==
    LET existing == heap[e]
        item == heap[id]
        cnt == Plus(Get(existing, K_count), Num(1))
        mean == Div(Add(Mul(Get(existing, K_absReturn), Get(existing, K_count)),
                        Get(item, K_absReturn)), cnt)
        merged == SetProp(SetProp(SetProp(SetProp(SetProp(SetProp(existing,
                      K_InvestedValue,
                      Plus(Get(existing, K_InvestedValue), Get(item, K_InvestedValue))),
                      K_CurrentValue,
                      Plus(Get(existing, K_CurrentValue), Get(item, K_CurrentValue))),
                      K_Returns, Plus(Get(existing, K_Returns), Get(item, K_Returns))),
                      K_Units, Plus(Get(existing, K_Units), Get(item, K_Units))),
                      K_count, cnt), K_absReturn, mean)
    IN  [heap EXCEPT ![e] = merged]

\* lines 1298-1306: the merge of item id into the fund object e
MergeFund(heap, e, id) ==
    LET existing == heap[e]
        item == heap[id]
        inv == Plus(Get(existing, K_InvestedValue), Get(item, K_InvestedValue))
        cur == Plus(Get(existing, K_CurrentValue), Get(item, K_CurrentValue))
        ret == Plus(Get(existing, K_Returns), Get(item, K_Returns))
        uni == Plus(Get(existing, K_Units), Get(item, K_Units))
        cnt == Plus(Get(existing, K_count), Num(1))
        merged == SetProp(SetProp(SetProp(SetProp(SetProp(SetProp(existing,
                      K_InvestedValue, inv), K_CurrentValue, cur), K_Returns, ret),
                      K_Units, uni), K_count, cnt), K_absReturn, AbsReturn(cur, inv))
    IN  [heap EXCEPT ![e] = merged]

EmptyGroup == [totalVal |-> Num(0), totalInv |-> Num(0), funds |-> <<>>]

\* lines 1288-1307: smartGroups and the heap after one item.  A category or
\* sub-category that the dictionary inherits instead of owning resolves to a
\* built-in function: what is written to it is not seen in smartGroups, and
\* reading .funds of it gives undefined, whose indexing raises a TypeError.
GroupStep(acc, id) ==
    LET item == acc.heap[id]
        cat == String(Or(Get(item, K_Category), Str(S_Other)))
        subCat == String(Or(Get(item, K_SubCategory), Str(S_Other)))
        schemeName == String(Get(item, K_SchemeName))
        sg == acc.smartGroups
        catInherited == ~HasOwn(sg, cat) /\ cat \in ObjectPrototypeKeys
        inner == IF HasOwn(sg, cat) THEN Own(sg, cat) ELSE <<>>
        subInherited == ~HasOwn(inner, subCat) /\ subCat \in ObjectPrototypeKeys
        group == IF HasOwn(inner, subCat) THEN Own(inner, subCat) ELSE EmptyGroup
        isNew == ~HasOwn(group.funds, schemeName)
                 /\ schemeName \notin ObjectPrototypeKeys
        isOwn == HasOwn(group.funds, schemeName)
        fresh == NewFund(acc.heap, id)
        heap2 == IF isNew THEN fresh.heap
                 ELSE IF isOwn THEN MergeFund(acc.heap, Own(group.funds, schemeName), id)
                 ELSE acc.heap
        group2 == [totalVal |-> Plus(group.totalVal, Get(item, K_CurrentValue)),
                   totalInv |-> Plus(group.totalInv, Get(item, K_InvestedValue)),
                   funds |-> IF isNew THEN Put(group.funds, schemeName, fresh.ref)
                             ELSE group.funds]
    IN  IF catInherited
        THEN [acc EXCEPT !.raised = (subCat \in ObjectPrototypeKeys)]
        ELSE IF subInherited
        THEN [acc EXCEPT !.raised = TRUE]
        ELSE [acc EXCEPT !.heap = heap2,
                         !.smartGroups = Put(sg, cat, Put(inner, subCat, group2))]

\* an accumulator that weighs the Holdings without XIRR too
XirrStepAll(categoryXIRR, subCat, xirr, currVal) ==
    LET inherited == ~HasOwn(categoryXIRR, subCat) /\ subCat \in ObjectPrototypeKeys
        cx == IF HasOwn(categoryXIRR, subCat) \/ inherited THEN categoryXIRR
              ELSE Put(categoryXIRR, subCat, [sumProduct |-> Num(0), sumWeight |-> Num(0)])
        e == Own(cx, subCat)
    IN  IF ~inherited
        THEN Put(cx, subCat, [sumProduct |-> Plus(e.sumProduct, Mul(xirr, currVal)),
                              sumWeight |-> Plus(e.sumWeight, currVal)])
        ELSE cx

\* lines 1279-1283: categoryXIRR after one item
XirrStep(categoryXIRR, subCat, xirr, currVal) ==
    LET inherited == ~HasOwn(categoryXIRR, subCat) /\ subCat \in ObjectPrototypeKeys
        cx == IF HasOwn(categoryXIRR, subCat) \/ inherited THEN categoryXIRR
              ELSE Put(categoryXIRR, subCat, [sumProduct |-> Num(0), sumWeight |-> Num(0)])
        e == Own(cx, subCat)
    IN  IF Truthy(xirr) /\ ~inherited
        THEN Put(cx, subCat, [sumProduct |-> Plus(e.sumProduct, Mul(xirr, currVal)),
                              sumWeight |-> Plus(e.sumWeight, currVal)])
        ELSE cx

\* lines 1267-1308: the body of processedData.forEach for one item
ItemStep(acc, id) ==
    LET item == acc.heap[id]
        cat == String(Or(Get(item, K_Category), Str(S_Other)))
        subCat == String(Or(Get(item, K_SubCategory), Str(S_Other)))
        amc == String(Or(Get(item, K_AMC), Str(S_Other)))
        xirr == Or(Get(item, K_XIRR), Num(0))
        currVal == Get(item, K_CurrentValue)
        acc1 == [acc EXCEPT
            !.byCategory = Put(@, cat, Plus(Or(Lookup(@, cat), Num(0)), currVal)),
            !.byAMC = Put(@, amc, Plus(Or(Lookup(@, amc), Num(0)), currVal)),
            !.subCategoryCounts = Put(@, subCat, Plus(Or(Lookup(@, subCat), Num(0)), Num(1))),
            !.categoryXIRR = XirrStep(@, subCat, xirr, currVal),
            !.lossMakers = IF Lt(Get(item, K_Returns), Num(0)) THEN Append(@, id) ELSE @,
            !.clutter = IF Lt(currVal, Num(ClutterLimit)) THEN Append(@, id) ELSE @]
    IN  GroupStep(acc1, id)

\* processedData.forEach over ids[lo..hi], in order: an exception ends the loop
RECURSIVE ForEach(_, _, _, _)
ForEach(acc, ids, lo, hi) ==
    IF lo > hi \/ acc.raised THEN acc
    ELSE IF lo = hi THEN ItemStep(acc, ids[lo])
    ELSE ForEach(ForEach(acc, ids, lo, (lo + hi) \div 2), ids, (lo + hi) \div 2 + 1, hi)


RECURSIVE Flatten(_)
Flatten(ss) == IF ss = <<>> THEN <<>> ELSE Head(ss) \o Flatten(Tail(ss))

\* the number of AMCs kept by slice(0, 7), line 1370
TopAMCs == 7

\* a resolution that tests "Mid" before "Small"
BenchKeyMidFirst(subCat) ==
    IF HasOwn(BENCHMARKS, subCat) \/ subCat \in ObjectPrototypeKeys THEN subCat
    ELSE IF includes(subCat, S_Large) THEN S_LargeCap
    ELSE IF includes(subCat, S_Mid) THEN S_MidCap
    ELSE IF includes(subCat, S_Small) THEN S_SmallCap
    ELSE IF includes(subCat, S_Flexi) THEN S_FlexiCap
    ELSE IF includes(subCat, S_Debt) THEN S_Debt
    ELSE S_Other

\* lines 1315-1321: the key of BENCHMARKS for a sub-category label
BenchKey(subCat) ==
    IF HasOwn(BENCHMARKS, subCat) \/ subCat \in ObjectPrototypeKeys THEN subCat
    ELSE IF includes(subCat, S_Large) THEN S_LargeCap
    ELSE IF includes(subCat, S_Small) THEN S_SmallCap
    ELSE IF includes(subCat, S_Mid) THEN S_MidCap
    ELSE IF includes(subCat, S_Flexi) THEN S_FlexiCap
    ELSE IF includes(subCat, S_Debt) THEN S_Debt
    ELSE S_Other

\* lines 1310-1335
ComparisonData(categoryXIRR) ==
    LET keys == SelectSeq(ObjectKeys(categoryXIRR),
                          LAMBDA k : Gt(Own(categoryXIRR, k).sumWeight, Num(0)))
        Entry(subCat) ==
            LET e == Own(categoryXIRR, subCat)
                myXIRR == Div(e.sumProduct, e.sumWeight)
                bench == Own(BENCHMARKS, BenchKey(subCat))
            IN  [category |-> subCat,
                 myXIRR |-> toFixed2(myXIRR),
                 benchXIRR |-> bench.return,
                 benchName |-> bench.name,
                 alpha |-> toFixed2(Sub(myXIRR, bench.return)),
                 weight |-> e.sumWeight]
    IN  Vals(SortDesc([i \in 1..Len(keys) |->
                          [key |-> Own(categoryXIRR, keys[i]).sumWeight,
                           val |-> Entry(keys[i])]]))

\* lines 1338-1348: the sub-category entry of one group
SubCategoryNode(heap, subKey, group) ==
    LET names == ObjectKeys(group.funds)
        fundList == Vals(SortDesc([i \in 1..Len(names) |->
                        LET f == heap[Own(group.funds, names[i])]
                        IN  [key |-> Get(f, K_CurrentValue), val |-> f]]))
    IN  [name |-> subKey, totalVal |-> group.totalVal, totalInv |-> group.totalInv,
         funds |-> fundList, fundCount |-> Len(fundList)]

\* lines 1337-1350
CategoryTree(heap, smartGroups) ==
    LET cats == ObjectKeys(smartGroups)
        Node(catKey) ==
            LET inner == Own(smartGroups, catKey)
                subs == ObjectKeys(inner)
                subCats == Vals(SortDesc([i \in 1..Len(subs) |->
                              LET node == SubCategoryNode(heap, subs[i], Own(inner, subs[i]))
                              IN  [key |-> node.totalVal, val |-> node]]))
            IN  [name |-> catKey,
                 totalVal |-> SumSeq([i \in 1..Len(subCats) |-> subCats[i].totalVal]),
                 subCategories |-> subCats]
    IN  Vals(SortDesc([i \in 1..Len(cats) |->
                          LET node == Node(cats[i])
                          IN  [key |-> node.totalVal, val |-> node]]))

\* a plan entry that carries the category of its funds as its label
PlanEntryByCategory(sub) ==
    LET sortedFunds == Vals(SortDesc([i \in 1..Len(sub.funds) |->
                          [key |-> Or(Get(sub.funds[i], K_XIRR),
                                      Get(sub.funds[i], K_absReturn)),
                           val |-> sub.funds[i]]]))
        others == SubSeq(sortedFunds, 2, Len(sortedFunds))
    IN  [category |-> String(Or(Get(sortedFunds[1], K_Category), Str(S_Other))),
         winner |-> sortedFunds[1],
         others |-> others,
         potentialMoveValue |->
             SumSeq([i \in 1..Len(others) |-> Get(others[i], K_CurrentValue)])]

\* lines 1355-1364: the plan entry of one sub-category with more than 2 funds
PlanEntry(sub) ==
    LET sortedFunds == Vals(SortDesc([i \in 1..Len(sub.funds) |->
                          [key |-> Or(Get(sub.funds[i], K_XIRR),
                                      Get(sub.funds[i], K_absReturn)),
                           val |-> sub.funds[i]]]))
        others == SubSeq(sortedFunds, 2, Len(sortedFunds))
    IN  [category |-> sub.name,
         winner |-> sortedFunds[1],
         others |-> others,
         potentialMoveValue |->
             SumSeq([i \in 1..Len(others) |-> Get(others[i], K_CurrentValue)])]

\* a plan with an entry for two funds already
ConsolidationPlanFromTwo(categoryTree) ==
    Flatten([c \in 1..Len(categoryTree) |->
        LET subs == SelectSeq(categoryTree[c].subCategories,
                              LAMBDA sub : sub.fundCount >= ConsolidationLimit)
        IN  [i \in 1..Len(subs) |-> PlanEntry(subs[i])]])

\* lines 1352-1367
ConsolidationPlan(categoryTree) ==
    Flatten([c \in 1..Len(categoryTree) |->
        LET subs == SelectSeq(categoryTree[c].subCategories,
                              LAMBDA sub : sub.fundCount > ConsolidationLimit)
        IN  [i \in 1..Len(subs) |-> PlanEntry(subs[i])]])

\* the entries left in the order of the keys
EntriesUnsorted(obj) ==
    LET keys == ObjectKeys(obj)
    IN  [i \in 1..Len(keys) |-> [name |-> keys[i], value |-> Own(obj, keys[i])]]

\* lines 1369-1370: Object.entries(obj) sorted by value, largest first
EntriesByValue(obj) ==
    LET keys == ObjectKeys(obj)
    IN  Vals(SortDesc([i \in 1..Len(keys) |->
                          [key |-> Own(obj, keys[i]),
                           val |-> [name |-> keys[i], value |-> Own(obj, keys[i])]]]))

Min(a, b) == IF Lt(b, a) THEN b ELSE a

\* a score that charges for size from 20 and from 40 Holdings on
HealthScoreFromLimit(clutterCount, lossCount, size) ==
    LET s1 == Sub(Num(100), Min(Num(20), Num(clutterCount * 2)))
        s2 == Sub(s1, Min(Num(15), Frac(lossCount * 3, 2)))
        s3 == IF size >= SizeLimit1 THEN Sub(s2, Num(10)) ELSE s2
        s4 == IF size >= SizeLimit2 THEN Sub(s3, Num(10)) ELSE s3
        r == MathRound(s4)
    IN  IF r < 0 THEN 0 ELSE r

\* a score that rounds the penalty for the loss makers by itself
HealthScoreRoundedPenalty(clutterCount, lossCount, size) ==
    LET s1 == Sub(Num(100), Min(Num(20), Num(clutterCount * 2)))
        s2 == Sub(s1, Min(Num(15), Num(MathRound(Frac(lossCount * 3, 2)))))
        s3 == IF size > SizeLimit1 THEN Sub(s2, Num(10)) ELSE s2
        s4 == IF size > SizeLimit2 THEN Sub(s3, Num(10)) ELSE s3
        r == MathRound(s4)
    IN  IF r < 0 THEN 0 ELSE r

\* a score whose penalty for the loss makers has no cap
HealthScoreUncapped(clutterCount, lossCount, size) ==
    LET s1 == Sub(Num(100), Min(Num(20), Num(clutterCount * 2)))
        s2 == Sub(s1, Frac(lossCount * 3, 2))
        s3 == IF size > SizeLimit1 THEN Sub(s2, Num(10)) ELSE s2
        s4 == IF size > SizeLimit2 THEN Sub(s3, Num(10)) ELSE s3
        r == MathRound(s4)
    IN  IF r < 0 THEN 0 ELSE r

\* lines 1372-1377
HealthScore(clutterCount, lossCount, size) ==
    LET s1 == Sub(Num(100), Min(Num(20), Num(clutterCount * 2)))
        s2 == Sub(s1, Min(Num(15), Frac(lossCount * 3, 2)))
        s3 == IF size > SizeLimit1 THEN Sub(s2, Num(10)) ELSE s2
        s4 == IF size > SizeLimit2 THEN Sub(s3, Num(10)) ELSE s3
        r == MathRound(s4)
    IN  IF r < 0 THEN 0 ELSE r

\* a label whose limits belong to the lower label
HealthLabelInclusive(score) ==
    IF score <= 40 THEN "Critical"
    ELSE IF score <= 60 THEN "Poor"
    ELSE IF score <= 80 THEN "Good"
    ELSE "Excellent"

\* line 1379
HealthLabel(score) ==
    IF score < 40 THEN "Critical"
    ELSE IF score < 60 THEN "Poor"
    ELSE IF score < 80 THEN "Good"
    ELSE "Excellent"

\* a filter that keeps the values above the limit only
WorkingSetStrict(heap, all, simulate) ==
    IF simulate
    THEN SelectSeq(all, LAMBDA i : Gt(Get(heap[i], K_CurrentValue), Num(ClutterLimit)))
    ELSE all

\* line 1249-1251: the items kept in processedData
WorkingSet(heap, all, simulate) ==
    IF simulate
    THEN SelectSeq(all, LAMBDA i : Ge(Get(heap[i], K_CurrentValue), Num(ClutterLimit)))
    ELSE all

\* statistics computed after the filter of line 1250
StatsSourceFiltered(all, filtered) == filtered

\* lines 1244-1251: the statistics are computed from processedData as it is
\* before line 1250 replaces it with the filtered list
StatsSource(all, filtered) == all

\* lines 1244-1247
SimStats(heap, all) ==
    LET clutterItems == SelectSeq(all,
            LAMBDA i : Lt(Get(heap[i], K_CurrentValue), Num(ClutterLimit)))
    IN  [originalCount |-> Len(all),
         originalTotalVal |-> SumSeq([i \in 1..Len(all) |-> Get(heap[all[i]], K_CurrentValue)]),
         clutterCount |-> Len(clutterItems),
         clutterVal |-> SumSeq([i \in 1..Len(clutterItems) |->
                                   Get(heap[clutterItems[i]], K_CurrentValue)])]

\* the objects behind a list of references
Deref(heap, ids) == [i \in 1..Len(ids) |-> heap[ids[i]]]

\* lines 1254-1255: the sum of (item[key] || 0) over processedData
TotalOf(heap, ids, key) ==
    SumSeq([i \in 1..Len(ids) |-> Or(Get(heap[ids[i]], key), Num(0))])

\* a percentage taken without the test of the divisor
TotalAbsReturnUnguarded(totalInv, totalReturns) ==
    Mul(Div(totalReturns, totalInv), Num(100))

\* line 1257
TotalAbsReturn(totalInv, totalReturns) ==
    IF Gt(totalInv, Num(0)) THEN Mul(Div(totalReturns, totalInv), Num(100)) ELSE Num(0)

\* line 1370: slice(0, 7)
Top(amcData) ==
    SubSeq(amcData, 1, IF Len(amcData) < TopAMCs THEN Len(amcData) ELSE TopAMCs)

\* lines 1379-1380
Health(score) == [score |-> score, label |-> HealthLabel(score)]

\* the accumulators of lines 1259-1265 before the loop
EmptyAcc(heap) ==
    [heap |-> heap, byCategory |-> <<>>, byAMC |-> <<>>,
     subCategoryCounts |-> <<>>, categoryXIRR |-> <<>>,
     lossMakers |-> <<>>, clutter |-> <<>>, smartGroups |-> <<>>,
     raised |-> FALSE]

\* a score that counts the clutter of the working set
ReturnedWorkingClutter(acc, processedData, simStats, totalInv, totalCurr, categoryTree) ==
    IF acc.raised THEN [status |-> "raised"]
    ELSE [status |-> "ok",
          totalInv |-> totalInv, totalCurr |-> totalCurr,
          totalReturns |-> Sub(totalCurr, totalInv),
          absReturn |-> TotalAbsReturn(totalInv, Sub(totalCurr, totalInv)),
          lossMakers |-> Deref(acc.heap, acc.lossMakers),
          clutter |-> Deref(acc.heap, acc.clutter),
          categoryData |-> EntriesByValue(acc.byCategory),
          amcData |-> Top(EntriesByValue(acc.byAMC)),
          processedData |-> Deref(acc.heap, processedData),
          categoryTree |-> categoryTree,
          healthScore |-> Health(HealthScore(Len(acc.clutter), Len(acc.lossMakers),
                                             Len(processedData))),
          comparisonData |-> ComparisonData(acc.categoryXIRR),
          simStats |-> simStats,
          consolidationPlan |-> ConsolidationPlan(categoryTree)]

\* lines 1388-1398: the object returned, or the exception of the loop.  (The
\* fields categories, topGainers and bottomLaggards of the returned object,
\* read by the presentation only, are left out.)
Returned(acc, processedData, simStats, totalInv, totalCurr, categoryTree) ==
    IF acc.raised THEN [status |-> "raised"]
    ELSE [status |-> "ok",
          totalInv |-> totalInv, totalCurr |-> totalCurr,
          totalReturns |-> Sub(totalCurr, totalInv),
          absReturn |-> TotalAbsReturn(totalInv, Sub(totalCurr, totalInv)),
          lossMakers |-> Deref(acc.heap, acc.lossMakers),
          clutter |-> Deref(acc.heap, acc.clutter),
          categoryData |-> EntriesByValue(acc.byCategory),
          amcData |-> Top(EntriesByValue(acc.byAMC)),
          processedData |-> Deref(acc.heap, processedData),
          categoryTree |-> categoryTree,
          healthScore |-> Health(HealthScore(simStats.clutterCount, Len(acc.lossMakers),
                                             Len(processedData))),
          comparisonData |-> ComparisonData(acc.categoryXIRR),
          simStats |-> simStats,
          consolidationPlan |-> ConsolidationPlan(categoryTree)]

\* lines 1310-1398, with the accumulators as the loop leaves them: what is
\* returned (result) and the first n objects, those of data (items)
Derived(acc, processedData, simStats, totalInv, totalCurr, n) ==
    [result |-> Returned(acc, processedData, simStats, totalInv, totalCurr,
                         CategoryTree(acc.heap, acc.smartGroups)),
     items |-> SubSeq(acc.heap, 1, n)]

\* lines 1244-1308, with the mapped list (all) and the filtered one
Processed(heap0, all, processedData, n) ==
    Derived(ForEach(EmptyAcc(heap0), processedData, 1, Len(processedData)),
            processedData,
            SimStats(heap0, StatsSource(all, processedData)),
            TotalOf(heap0, processedData, K_InvestedValue),
            TotalOf(heap0, processedData, K_CurrentValue),
            n)

\* lines 1244-1398, with the heap and the references the map has produced
AfterMap(st0, simulate, n) ==
    Processed(st0.heap, st0.refs, WorkingSet(st0.heap, st0.refs, simulate), n)

\* lines 1228-1399: one run of the callback of useMemo for a data that is not
\* null: the object it returns (result) and the objects of data after the run
\* (items)
Engine(items, simulate) ==
    AfterMap(MapAll([heap |-> items, refs |-> <<>>], Len(items)), simulate, Len(items))

\* what the callback returns
analyze(items, simulate) == Engine(items, simulate).result

\* line 1229: no analysis while data is null
NoAnalysis == [status |-> "none"]


-----------------------------------------------------------------------------
(* The component: state, handlers and renders, lines 1131-1399 *)

\* a row object with the nine canonical columns
Holding(name, cat, sub, amc, units, inv, cur, ret, xirr) ==
    [k \in {K_SchemeName, K_Category, K_SubCategory, K_AMC, K_Units,
            K_InvestedValue, K_CurrentValue, K_Returns, K_XIRR} |->
        CASE k = K_SchemeName -> name
          [] k = K_Category -> cat
          [] k = K_SubCategory -> sub
          [] k = K_AMC -> amc
          [] k = K_Units -> units
          [] k = K_InvestedValue -> inv
          [] k = K_CurrentValue -> cur
          [] k = K_Returns -> ret
          [] OTHER -> xirr]

\* lines 1041-1051
SAMPLE_DATA ==
    <<
       Holding(Str(<<"H","D","F","C"," ","T","o","p"," ","1","0","0"," ","F","u","n","d">>),
               Str(<<"E","q","u","i","t","y">>), Str(<<"L","a","r","g","e"," ","C","a","p">>),
               Str(<<"H","D","F","C"," ","M","u","t","u","a","l"," ","F","u","n","d">>),
               Num(500), Num(50000), Num(75000), Num(25000), Frac(155, 10)),
       Holding(Str(<<"S","B","I"," ","S","m","a","l","l"," ","C","a","p"," ","F","u","n","d">>),
               Str(<<"E","q","u","i","t","y">>), Str(<<"S","m","a","l","l"," ","C","a","p">>),
               Str(<<"S","B","I"," ","M","u","t","u","a","l"," ","F","u","n","d">>),
               Num(200), Num(40000), Num(65000), Num(25000), Frac(221, 10)),
       Holding(Str(<<"A","x","i","s"," ","M","i","d","c","a","p"," ","F","u","n","d">>),
               Str(<<"E","q","u","i","t","y">>), Str(<<"M","i","d"," ","C","a","p">>),
               Str(<<"A","x","i","s"," ","M","u","t","u","a","l"," ","F","u","n","d">>),
               Num(300), Num(45000), Num(55000), Num(10000), Frac(142, 10)),
       Holding(Str(<<"P","a","r","a","g"," ","P","a","r","i","k","h"," ","F","l","e","x","i"," ","C","a","p">>),
               Str(<<"E","q","u","i","t","y">>), Str(<<"F","l","e","x","i"," ","C","a","p">>),
               Str(<<"P","P","F","A","S"," ","M","u","t","u","a","l"," ","F","u","n","d">>),
               Num(400), Num(80000), Num(110000), Num(30000), Frac(185, 10)),
       Holding(Str(<<"H","D","F","C"," ","B","a","l","a","n","c","e","d"," ","A","d","v","a","n","t","a","g","e">>),
               Str(<<"H","y","b","r","i","d">>), Str(<<"D","y","n","a","m","i","c"," ","A","s","s","e","t"," ","A","l","l","o","c","a","t","i","o","n">>),
               Str(<<"H","D","F","C"," ","M","u","t","u","a","l"," ","F","u","n","d">>),
               Num(100), Num(10000), Num(12000), Num(2000), Frac(95, 10)),
       Holding(Str(<<"N","i","p","p","o","n"," ","I","n","d","i","a"," ","S","m","a","l","l"," ","C","a","p">>),
               Str(<<"E","q","u","i","t","y">>), Str(<<"S","m","a","l","l"," ","C","a","p">>),
               Str(<<"N","i","p","p","o","n"," ","I","n","d","i","a"," ","M","u","t","u","a","l"," ","F","u","n","d">>),
               Num(50), Num(4000), Num(4500), Num(500), Frac(12, 1)),
       Holding(Str(<<"U","T","I"," ","N","i","f","t","y"," ","5","0"," ","I","n","d","e","x">>),
               Str(<<"E","q","u","i","t","y">>), Str(<<"L","a","r","g","e"," ","C","a","p">>),
               Str(<<"U","T","I"," ","M","u","t","u","a","l"," ","F","u","n","d">>),
               Num(100), Num(15000), Num(14000), Num(-1000), Frac(-5, 1)),
       Holding(Str(<<"I","C","I","C","I"," ","P","r","u","d","e","n","t","i","a","l"," ","B","l","u","e","c","h","i","p">>),
               Str(<<"E","q","u","i","t","y">>), Str(<<"L","a","r","g","e"," ","C","a","p">>),
               Str(<<"I","C","I","C","I"," ","P","r","u","d","e","n","t","i","a","l">>),
               Num(150), Num(30000), Num(38000), Num(8000), Frac(13, 1)),
       Holding(Str(<<"S","B","I"," ","B","l","u","e","c","h","i","p"," ","F","u","n","d">>),
               Str(<<"E","q","u","i","t","y">>), Str(<<"L","a","r","g","e"," ","C","a","p">>),
               Str(<<"S","B","I"," ","M","u","t","u","a","l"," ","F","u","n","d">>),
               Num(120), Num(25000), Num(29000), Num(4000), Frac(11, 1))
    >>


-----------------------------------------------------------------------------
(* The files a user can pick.  A file is described by the rows it holds:   *)
(* rows before the header (pre), a header (hdr), data rows drawn from the  *)
(* row templates (rows), and a number of copies of one more row (pad).     *)

\* the data rows of a file are at most this many, where every sequence of
\* rows is tried
MaxRows == 3

CanonicalColumns == <<K_SchemeName, K_Category, K_SubCategory, K_AMC, K_Units,
                      K_InvestedValue, K_CurrentValue, K_Returns, K_XIRR>>

\* the columns of a header, as positions in CanonicalColumns
HeaderColumns(hdr) == IF hdr = "min" THEN <<1, 7>> ELSE <<1, 2, 3, 4, 5, 6, 7, 8, 9>>

\* the spelling of a column in a header: the header "upper" writes the scheme
\* name column in capitals, the header "lower" writes "Current value"
Spelling(hdr, column) ==
    IF hdr = "upper" /\ column = K_SchemeName
    THEN <<"S","C","H","E","M","E"," ","N","A","M","E">>
    ELSE IF hdr = "lower" /\ column = K_CurrentValue
    THEN <<"C","u","r","r","e","n","t"," ","v","a","l","u","e">>
    ELSE column

HeaderRow(hdr) ==
    [j \in 1..Len(HeaderColumns(hdr)) |->
        Str(Spelling(hdr, CanonicalColumns[HeaderColumns(hdr)[j]]))]

\* row templates 1..8: the cells of one holding, in canonical column order
RowTemplate(r) ==
    CASE r = 1 -> <<Str(<<"A">>), Str(<<"E","q","u","i","t","y">>), Str(S_LargeCap), Str(<<"H">>),
                    Num(10), Str(<<"4",",","0","0","0">>), Str(<<" ","6",",","0","0","0"," ">>), Num(2000), Str(<<"1","0","%">>)>>
      [] r = 2 -> <<Str(<<"A">>), Str(<<"E","q","u","i","t","y">>), Str(S_LargeCap), Str(<<"H">>),
                    Num(10), Num(8000), Num(6000), Num(-2000), Num(30)>>
      [] r = 3 -> <<Str(<<"B">>), Str(<<"E","q","u","i","t","y">>), Str(S_LargeCap), Str(<<"S">>),
                    Num(5), Num(3000), Num(4500), Num(1500), Str(<<"2","0",".","5">>)>>
      [] r = 4 -> <<Str(<<"C">>), Str(<<"E","q","u","i","t","y">>), Str(S_LargeCap), Str(<<"S">>),
                    Num(0), Num(10000), Num(12000), Num(2000), Num(0)>>
      [] r = 5 -> <<Str(<<"D">>), Str(S_Debt), Str(S_LargeCap), Str(<<"H">>),
                    Num(7), Num(7000), Num(7000), Num(0), Num(5)>>
      [] r = 6 -> <<Str(<<"E">>), Str(<<>>), Str(S_constructor), Str(<<>>),
                    Num(1), Num(5000), Num(5000), Num(0), Num(8)>>
      [] r = 7 -> <<Num(7), Num(5), Num(0), Num(3),
                    Str(<<"N","/","A">>), Str(<<>>), Str(<<"N","/","A">>), Str(<<"-">>), Str(<<"a","b","c">>)>>
      [] r = 11 -> <<Str(<<"Z">>), Str(<<"E","q","u","i","t","y">>), Str(S_LargeCap), Str(<<"H">>),
                     Num(0), Num(0), Num(0), Num(0), Num(0)>>
      [] r = 12 -> <<Str(<<"Y">>), Str(<<"E","q","u","i","t","y">>), Str(S_LargeCap), Str(<<"H">>),
                     Str(<<"0">>), Str(<<"0",".","0">>), Str(<<"0">>), Str(<<"-","0">>), Str(<<"0","%">>)>>
      [] r = 13 -> <<Str(<<"X">>), Str(<<"E","q","u","i","t","y">>), Str(S_LargeCap), Str(<<"S">>),
                     Num(0), Num(0), Num(0), Num(0), Num(0)>>
      [] r = 14 -> <<Str(<<"K">>), Str(<<"E","q","u","i","t","y">>),
                     Str(<<"L","a","r","g","e"," ","&"," ","M","i","d"," ","C","a","p">>), Str(<<"H">>),
                     Num(1), Num(5000), Num(6000), Num(1000), Num(14)>>
      [] r = 15 -> <<Str(<<"L">>), Str(<<"E","q","u","i","t","y">>),
                     Str(<<"M","i","d"," ","&"," ","S","m","a","l","l">>), Str(<<"H">>),
                     Num(1), Num(5000), Num(6000), Num(1000), Num(21)>>
      [] r = 16 -> <<Str(<<"M">>), Str(<<"E","q","u","i","t","y">>), Str(S_ELSS), Str(<<"S">>),
                     Num(1), Num(8000), Num(9000), Num(1000), Frac(125, 10)>>
      [] r = 17 -> <<Str(<<"N">>), Str(S_Debt),
                     Str(<<"D","e","b","t"," ","-"," ","F","l","e","x","i">>), Str(<<"S">>),
                     Num(1), Num(5000), Num(5000), Num(0), Num(7)>>
      [] r = 18 -> <<Str(<<"O">>), Str(S_Debt),
                     Str(<<"G","i","l","t"," ","d","e","b","t">>), Str(<<"S">>),
                     Num(1), Num(7000), Num(7000), Num(0), Num(-2)>>
      [] r = 19 -> <<Str(<<"Q">>), Str(S_Debt), Str(S_Liquid), Str(<<"S">>),
                     Num(1), Num(8000), Num(8000), Num(0), Num(0)>>
      [] r = 20 -> <<Str(<<"R">>), Str(<<"E","q","u","i","t","y">>),
                     Str(<<"L","a","r","g","e"," ","&"," ","M","i","d"," ","C","a","p">>), Str(<<"H">>),
                     Num(1), Num(5000), Str(<<"N","/","A">>), Num(0), Num(12)>>
      [] r = 21 -> <<Str(<<"T">>), Str(<<"E","q","u","i","t","y">>), Str(S_LargeCap), Str(<<"H">>),
                     Num(1), Num(5000), Str(<<"N","/","A">>), Num(0), Num(0)>>
      [] r = 22 -> <<Str(<<"U">>), Str(<<"E","q","u","i","t","y">>), Str(S_LargeCap), Str(<<"S">>),
                     Num(1), Num(6000), Num(9000), Num(3000), Num(20)>>
      [] r = 23 -> <<Str(<<"T">>), Str(<<"E","q","u","i","t","y">>), Str(S_LargeCap), Str(<<"H">>),
                     Num(1), Num(3000), Num(6000), Num(3000), Num(5)>>
      [] r = 24 -> <<Str(<<"A"," ","\"","x","\"",","," ","B">>), Str(<<"E","q","u","i","t","y">>),
                     Str(S_LargeCap), Str(<<"H">>),
                     Num(2), Str(<<"7",",","0","0","0">>), Num(9000), Num(2000), Num(9)>>
      [] r = 25 -> <<Str(<<"V">>), Str(<<"E","q","u","i","t","y">>), Str(S_LargeCap), Str(<<"H">>),
                     Num(1), Num(5000), Num(8000), Num(3000), Frac(13375, 1000)>>
      [] r = 26 -> <<Str(<<"I">>), Str(<<"E","q","u","i","t","y">>), Str(S_ELSS), Str(<<"H">>),
                     Num(1), Num(5000), Num(6000), Num(1000), Str(S_Infinity)>>
      [] OTHER -> <<Str(<<" ">>), Str(<<"E","q","u","i","t","y">>), Str(S_LargeCap), Str(<<"H">>),
                    Num(1), Num(9000), Num(100), Num(-8900), Num(1)>>

\* the row repeated pad times: a Holding of 6000, one of zeros, or one of
\* 1000 at a loss
FillerRow(fill) ==
    IF fill = "zero" THEN RowTemplate(11)
    ELSE IF fill = "loss"
    THEN <<Str(<<"W">>), Str(<<"E","q","u","i","t","y">>), Str(S_MidCap), Str(<<"H">>),
           Num(1), Num(3000), Num(1000), Num(-2000), Num(-5)>>
    ELSE <<Str(<<"P">>), Str(<<"E","q","u","i","t","y">>), Str(S_MidCap), Str(<<"H">>),
           Num(1), Num(5000), Num(6000), Num(1000), Num(12)>>

Project(hdr, cells) == [j \in 1..Len(HeaderColumns(hdr)) |-> cells[HeaderColumns(hdr)[j]]]

\* row 9 is a row of one cell, row 10 is the header once more
RowOf(hdr, r) ==
    CASE r = 9 -> <<Str(<<"G">>)>>
      [] r = 10 -> HeaderRow(hdr)
      [] OTHER -> Project(hdr, RowTemplate(r))

\* the rows above the header: a title that holds one of the two header
\* phrases, and a row that looks like data
PreRows(pre) ==
    IF pre = 0 THEN <<>>
    ELSE << <<Str(<<"M","y"," ","S","c","h","e","m","e"," ","N","a","m","e","s">>), Num(2024)>>,
            <<Str(<<"X">>), Str(<<"4",",","5","0","0">>)>> >>

\* the grid sheet_to_json(..., {header: 1}) gives for the file, line 1205
GridOf(f) ==
    PreRows(f.pre)
    \o (IF f.hdr = "none" THEN <<>> ELSE <<HeaderRow(f.hdr)>>)
    \o [i \in 1..Len(f.rows) |-> RowOf(f.hdr, f.rows[i])]
    \o [i \in 1..f.pad |-> Project(f.hdr, FillerRow(f.fill))]

\* the text of the file when it is a CSV file: a cell with a comma or a quote
\* is quoted, and a quote in it is written twice
CsvEscape(s) ==
    Flatten([i \in 1..Len(s) |-> IF s[i] = "\"" THEN <<"\"", "\"">> ELSE <<s[i]>>])

CsvCell(v) ==
    IF v.t = "str" /\ \E i \in 1..Len(v.s) : v.s[i] \in {",", "\""}
    THEN <<"\"">> \o CsvEscape(v.s) \o <<"\"">>
    ELSE String(v)

RECURSIVE CsvJoin(_, _)
CsvJoin(parts, sep) ==
    IF parts = <<>> THEN <<>>
    ELSE IF Len(parts) = 1 THEN parts[1]
    ELSE parts[1] \o <<sep>> \o CsvJoin(Tail(parts), sep)

CsvTextOf(f) ==
    LET grid == GridOf(f)
    IN  CsvJoin([i \in 1..Len(grid) |->
                    CsvJoin([j \in 1..Len(grid[i]) |-> CsvCell(grid[i][j])], ",")], "\n")

SeqsUpTo(S, n) == UNION {[1..k -> S] : k \in 0..n}

File(kind, pre, hdr, rows, pad) ==
    [kind |-> kind, pre |-> pre, hdr |-> hdr, rows |-> rows, pad |-> pad, fill |-> "row"]

MainFiles == {File("xlsx", 0, "full", rs, 0) : rs \in SeqsUpTo(1..7, MaxRows)}

EdgeRows == {<<a, b>> : a \in 1..10, b \in {1, 7}} \cup {<<3, j>> : j \in 8..10}
            \cup {<<1, 9, 8, 3>>}

EdgeFiles == {File("xlsx", p, h, rs, 0) :
                 p \in {0, 1}, h \in {"full", "min", "none"}, rs \in EdgeRows}

PaddedFiles == {File("xlsx", 0, "full", rs, n) :
                   rs \in SeqsUpTo({2, 3}, 1), n \in {SizeLimit1, SizeLimit2}}

CsvFiles == {File("csv", p, "full", rs, 0) : p \in {0, 1}, rs \in {<<>>, <<1>>, <<1, 3>>, <<24>>, <<3, 24>>}}

\* files whose numbers are all zero
ZeroFiles ==
    {File("xlsx", 0, "full", rs, 0) : rs \in SeqsUpTo(11..13, MaxRows)}
    \cup {[File("xlsx", 0, "full", <<11>>, n) EXCEPT !.fill = "zero"] :
             n \in {9, SizeLimit1, SizeLimit2}}

\* files of many Holdings under 5000 and at a loss
LossFiles ==
    {[File("xlsx", 0, "full", <<11>>, n) EXCEPT !.fill = "loss"] :
        n \in {9, SizeLimit1, SizeLimit2}}

Increasing(rs) == \A i \in 1..Len(rs) - 1 : rs[i] < rs[i + 1]

\* files whose rows have a sub-category each, with and without a key of the
\* benchmark table in it
LabelFiles ==
    {File("xlsx", 0, "full", rs, 0) :
        rs \in {x \in SeqsUpTo(14..20, MaxRows) : Increasing(x)}}

\* files of one group whose schemes differ in their rank: by XIRR, by
\* absolute return, with equal keys, and without a key that is a number
RankFiles ==
    {File("xlsx", 0, "full", rs, 0) :
        rs \in {x \in SeqsUpTo({2, 3, 4, 21, 22}, MaxRows) :
                   \A i, j \in 1..Len(x) : x[i] = x[j] => i = j}}

\* files of one group with a scheme of two rows, of which the first has no
\* XIRR and a current value that is not a number
MergedRankFiles ==
    {File("xlsx", 0, "full", rs, 0) :
        rs \in {<<21, 23, 3, 2>>, <<3, 21, 23, 2>>, <<2, 3, 21, 23>>}}

\* sheets whose header spells a column in another case
CaseFiles ==
    {File("xlsx", 0, h, rs, 0) : h \in {"upper", "lower"}, rs \in {<<1>>, <<1, 3>>}}

\* a sheet whose categories and funds the sorts exchange, one fund merged
GroupedFiles == {File("xlsx", 0, "full", <<5, 3, 1, 2>>, 0)}

\* sheets with a Holding whose XIRR cell reads Infinity
InfiniteFiles ==
    {File("xlsx", 0, "full", rs, 0) : rs \in {<<26>>, <<16, 26>>, <<26, 19>>}}

\* sheets with a Holding whose XIRR lies an eighth below its benchmark
RoundingFiles ==
    {File("xlsx", 0, "full", rs, 0) : rs \in {<<25>>, <<1, 25>>}}

Files == MainFiles \cup EdgeFiles \cup PaddedFiles \cup CsvFiles \cup ZeroFiles
         \cup LabelFiles \cup RankFiles \cup MergedRankFiles \cup LossFiles
         \cup RoundingFiles \cup InfiniteFiles \cup GroupedFiles
         \cup CaseFiles

-----------------------------------------------------------------------------
(* Handlers *)

NoData == <<>>        \* data is null; setData never receives an empty array
NoError == "null"     \* error is null

\* the loads that may be pending together, and the reads that may fail
MaxInFlight == 2
MaxFailed == 1

\* the loads of the history: none, the sample data, or a file
NoLoad == [kind |-> "none"]
SampleLoad == [kind |-> "sample"]

\* the files of the loads that overlap: the order of the completions is what
\* matters there, not the Holdings; the analysis of the third one raises
RaceFiles ==
    {File("xlsx", 0, "full", <<3>>, 0), File("csv", 0, "full", <<1>>, 0),
     File("xlsx", 0, "full", <<6>>, 0)}

\* the number of pending loads
InFlight == Len(reading) + (IF timer THEN 1 ELSE 0)

\* a load may start: none is pending, or it joins pending loads of RaceFiles
MayStart(isRace) ==
    /\ InFlight < MaxInFlight
    /\ InFlight > 0 => (isRace /\ \A i \in 1..Len(reading) : reading[i] \in RaceFiles)

\* s without its element number i
Remove(s, i) == SubSeq(s, 1, i - 1) \o SubSeq(s, i + 1, Len(s))

TypeOK ==
    /\ loading \in BOOLEAN
    /\ simulateCleanup \in BOOLEAN
    /\ xlsxReady \in BOOLEAN
    /\ timer \in BOOLEAN
    /\ overlapped \in BOOLEAN
    /\ failed \in 0..MaxFailed
    /\ InFlight <= MaxInFlight
    /\ analysis.status \in {"none", "ok", "raised"}

Init ==
    /\ data = NoData
    /\ loading = FALSE
    /\ error = NoError
    /\ simulateCleanup = FALSE
    /\ xlsxReady = FALSE
    /\ reading = <<>>
    /\ timer = FALSE
    /\ failed = 0
    /\ analysis = NoAnalysis
    /\ given = NoData
    /\ memo = [b \in BOOLEAN |-> NoAnalysis]
    /\ lastStarted = NoLoad
    /\ overlapped = FALSE

\* a render that threw has unmounted the component: nothing is clickable
Mounted == analysis.status # "raised"

\* setData(d) with d not null, and the render that follows: useMemo runs the
\* engine on the new data with the flag as it stands
Render(run) == data' = run.items /\ analysis' = run.result

SetData(d) ==
    /\ given' = d
    /\ Render(Engine(d, simulateCleanup))
    /\ memo' = [b \in BOOLEAN |-> IF b = simulateCleanup THEN analysis' ELSE NoAnalysis]

\* the history of a step that starts a load
Started(load) ==
    /\ lastStarted' = load
    /\ overlapped' = (overlapped \/ InFlight > 0)

\* the history of a step that ends a load: it is kept while a load is pending
Ended(pending) ==
    /\ lastStarted' = (IF pending = 0 THEN NoLoad ELSE lastStarted)
    /\ overlapped' = (pending > 0 /\ overlapped)

\* script.onload, line 1168
ScriptOnload ==
    /\ ~xlsxReady
    /\ xlsxReady' = TRUE
    /\ UNCHANGED <<data, loading, error, simulateCleanup, reading, timer, failed,
                   analysis, given, memo, lastStarted, overlapped>>

\* lines 1185-1225, up to the start of the read.  The file input is part of
\* the landing page, which is rendered while data is null, also while a load
\* is pending.
handleFileUpload(f) ==
    /\ Mounted /\ data = NoData
    /\ MayStart(f \in RaceFiles)
    /\ IF f.kind = "xlsx" /\ ~xlsxReady
       THEN /\ error' = "Excel engine is not ready. Please use a CSV file or refresh."
            /\ loading' = FALSE
            /\ reading' = reading
            /\ lastStarted' = lastStarted
            /\ overlapped' = (InFlight > 0)
       ELSE /\ error' = NoError
            /\ loading' = TRUE
            /\ reading' = Append(reading, f)
            /\ Started(f)
    /\ UNCHANGED <<data, simulateCleanup, xlsxReady, timer, failed, analysis, given,
                   memo>>

\* reader.onload, lines 1201-1211 and 1215-1222
Parsed(f) ==
    IF f.kind = "xlsx" THEN processRawRows(GridOf(f)) ELSE parseCSVText(CsvTextOf(f))

\* a handler that hands every result to setData
LoadedUntested(f, parsedData) ==
    /\ SetData(parsedData)
    /\ error' = error

Loaded(f, parsedData) ==
    IF Len(parsedData) = 0
    THEN /\ error' = (IF f.kind = "xlsx" THEN "No valid data found."
                      ELSE "No data found.")
         /\ UNCHANGED <<data, analysis, given, memo>>
    ELSE /\ SetData(parsedData)
         /\ error' = error

\* the read of reading[i] has ended well: reader.onload runs.  The reads end
\* in any order.  Once the component is unmounted its setters do nothing.
ReaderOnloadOf(i) ==
    /\ IF Mounted
       THEN /\ Loaded(reading[i], Parsed(reading[i]))
            /\ loading' = FALSE
       ELSE UNCHANGED <<data, analysis, given, memo, error, loading>>
    /\ reading' = Remove(reading, i)
    /\ Ended(InFlight - 1)
    /\ UNCHANGED <<simulateCleanup, xlsxReady, timer, failed>>

ReaderOnload == \E i \in 1..Len(reading) : ReaderOnloadOf(i)

\* the read of a file has ended in error: lines 1199-1223 set reader.onload
\* only, no handler runs and no state of the component changes
ReaderError ==
    /\ failed < MaxFailed
    /\ \E i \in 1..Len(reading) :
          /\ reading' = Remove(reading, i)
          /\ Ended(InFlight - 1)
    /\ failed' = failed + 1
    /\ UNCHANGED <<data, loading, error, simulateCleanup, xlsxReady, timer,
                   analysis, given, memo>>

\* lines 1173-1175.  One timer is pending at a time here.
loadSampleData ==
    /\ Mounted /\ data = NoData
    /\ ~timer /\ MayStart(TRUE)
    /\ loading' = TRUE
    /\ timer' = TRUE
    /\ Started(SampleLoad)
    /\ UNCHANGED <<data, error, simulateCleanup, xlsxReady, reading, failed,
                   analysis, given, memo>>

\* the callback of setTimeout, lines 1175-1178
SampleTimer ==
    /\ timer
    /\ IF Mounted
       THEN SetData(SAMPLE_DATA) /\ loading' = FALSE
       ELSE UNCHANGED <<data, analysis, given, memo, loading>>
    /\ timer' = FALSE
    /\ Ended(InFlight - 1)
    /\ UNCHANGED <<error, simulateCleanup, xlsxReady, reading, failed>>

\* line 1687, and the render that follows: useMemo runs the engine again
ToggleSimulate ==
    /\ Mounted /\ data # NoData
    /\ simulateCleanup' = ~simulateCleanup
    /\ Render(Engine(data, simulateCleanup'))
    /\ memo' = IF memo[simulateCleanup'].status = "none"
               THEN [memo EXCEPT ![simulateCleanup'] = analysis']
               ELSE memo
    /\ UNCHANGED <<loading, error, xlsxReady, reading, timer, failed, given,
                   lastStarted, overlapped>>

\* line 1499: the Close File button
CloseFile ==
    /\ Mounted /\ data # NoData
    /\ data' = NoData
    /\ given' = NoData
    /\ analysis' = NoAnalysis
    /\ memo' = [b \in BOOLEAN |-> NoAnalysis]
    /\ UNCHANGED <<loading, error, simulateCleanup, xlsxReady, reading, timer,
                   failed, lastStarted, overlapped>>

Next ==
    \/ ScriptOnload
    \/ \E f \in Files : handleFileUpload(f)
    \/ ReaderOnload
    \/ ReaderError
    \/ loadSampleData
    \/ SampleTimer
    \/ ToggleSimulate
    \/ CloseFile

Spec == Init /\ [][Next]_vars

-----------------------------------------------------------------------------
(* Properties of the normalizer *)

NumericFields == {K_Units, K_InvestedValue, K_CurrentValue, K_Returns, K_XIRR}

\* C7: every Holding that normalize emits has units, invested value, current
\* value, returns and xirr each a finite number (0 for a cell that is missing,
\* empty or not a number, and for a column that the header lacks).
C7_FiniteFields ==
    data # NoData =>
        \A i \in 1..Len(data) : \A k \in NumericFields : IsNum(Get(data[i], k))

\* the grid that the reader hands to processRawRows for file f
GridRead(f) == IF f.kind = "xlsx" THEN GridOf(f) ELSE CsvRows(CsvTextOf(f))

\* the text of a cell, in lower case, contains the phrase
CellHolds(cell, phrase) == includes(toLowerCase(String(cell)), phrase)

\* the rows of a grid that qualify as header
Qualifying(grid) ==
    {i \in 1..Len(grid) :
        /\ \E j \in 1..Len(grid[i]) : CellHolds(grid[i][j], S_scheme_name)
        /\ \E j \in 1..Len(grid[i]) : CellHolds(grid[i][j], S_current_value)}

\* the scheme names of the rows below row h that become Holdings: rows of two
\* cells or more with a name in the column that row h heads "Scheme Name"
NamesBelow(grid, h) ==
    LET cols == {j \in 1..Len(grid[h]) : HeaderText(grid[h][j]) = K_SchemeName}
        col == CHOOSE j \in cols : \A x \in cols : x <= j
        rows == SelectSeq([i \in 1..Len(grid) |-> i],
                          LAMBDA i : /\ i > h
                                     /\ Len(grid[i]) >= 2
                                     /\ Truthy(CellAt(grid[i], col)))
    IN  IF cols = {} THEN <<>>
        ELSE [k \in 1..Len(rows) |-> CellAt(grid[rows[k]], col)]

\* C8: the header is the first row of the grid, from the top, whose cell text
\* in lower case contains both "scheme name" and "current value": the rows
\* above it are ignored and never become Holdings, the Holdings are the rows
\* below it, with its cells as field names; a grid without such a row gives
\* the empty list.
C8_HeaderRow ==
    reading # <<>> =>
        LET grid == GridRead(Head(reading))
            out == processRawRows(grid)
            q == Qualifying(grid)
            h == CHOOSE i \in q : \A j \in q : i <= j
        IN  IF q = {} THEN out = <<>>
            ELSE /\ out = processRawRows(SubSeq(grid, h, Len(grid)))
                 /\ [k \in 1..Len(out) |-> Get(out[k], K_SchemeName)] = NamesBelow(grid, h)
                 /\ \A k \in 1..Len(out) :
                       DOMAIN out[k]
                         = {HeaderText(grid[h][j]) : j \in 1..Len(grid[h])}

\* a grid with rows above the header, one of them with one of the phrases and
\* one that looks like data, and with a second qualifying row below the header
C8_Witness ==
    /\ reading # <<>>
    /\ LET grid == GridRead(Head(reading))
           q == Qualifying(grid)
       IN  /\ Cardinality(q) >= 2
           /\ \A i \in q : i > 2
           /\ \E j \in 1..Len(grid[1]) : CellHolds(grid[1][j], S_scheme_name)
           /\ Len(processRawRows(grid)) >= 2


-----------------------------------------------------------------------------
(* Properties of the analysis *)

\* the engine has returned an analysis of the loaded Holdings
Analysed == data # NoData /\ analysis.status = "ok"

\* a numeric field of a Holding; a Holding without the number counts for 0
FieldOf(h, k) == IF IsNum(Get(h, k)) THEN Get(h, k) ELSE Num(0)

\* Holding h is in the working set for a flag value
InWorkingSet(h, flag) == ~flag \/ Ge(FieldOf(h, K_CurrentValue), Num(ClutterLimit))

\* the positions in d of the working set, in order
WorkingPositions(d, flag) ==
    SelectSeq([i \in 1..Len(d) |-> i], LAMBDA i : InWorkingSet(d[i], flag))

\* the sum of field k over the Holdings of d[lo..hi] that are in the working set
RECURSIVE WorkingSum(_, _, _, _, _)
WorkingSum(d, k, flag, lo, hi) ==
    IF lo > hi THEN Num(0)
    ELSE IF lo = hi
         THEN (IF InWorkingSet(d[lo], flag) THEN FieldOf(d[lo], k) ELSE Num(0))
    ELSE Add(WorkingSum(d, k, flag, lo, (lo + hi) \div 2),
             WorkingSum(d, k, flag, (lo + hi) \div 2 + 1, hi))

\* the fund objects of a category tree
FundsOf(tree) ==
    UNION {UNION {{tree[c].subCategories[j].funds[f] :
                      f \in 1..Len(tree[c].subCategories[j].funds)} :
                  j \in 1..Len(tree[c].subCategories)} : c \in 1..Len(tree)}

\* C1: for every list of Holdings and either value of the flag, totalCurrent
\* is the sum of currentValue over the working set (every Holding when the
\* flag is off, those of at least 5000 when it is on), totalInvested is the sum
\* of investedValue over the same set, and totalReturns is their difference.
C1_Totals ==
    Analysed =>
        /\ analysis.totalCurr
             = WorkingSum(data, K_CurrentValue, simulateCleanup, 1, Len(data))
        /\ analysis.totalInv
             = WorkingSum(data, K_InvestedValue, simulateCleanup, 1, Len(data))
        /\ analysis.totalReturns = Sub(analysis.totalCurr, analysis.totalInv)

\* the flag is on, it drops some Holdings and keeps others, one of them of
\* exactly 5000, and the totals differ
C1_Witness ==
    /\ Analysed /\ simulateCleanup
    /\ \E i \in 1..Len(data) : ~InWorkingSet(data[i], TRUE)
    /\ \E i \in 1..Len(data) : Get(data[i], K_CurrentValue) = Num(ClutterLimit)
    /\ analysis.totalReturns # Num(0)
    /\ analysis.totalCurr # Num(0)

\* C2: for the same Holdings the simulation statistics are the same for both
\* values of the flag, and stay the same through every sequence of toggles:
\* they are those of the whole list, as the first analysis for each flag value
\* and an analysis with the other flag value give them.
C2_StatsInvariant ==
    Analysed =>
        /\ analysis.simStats.originalCount = Len(data)
        /\ LET other == analyze(data, ~simulateCleanup)
           IN  other.status = "ok" => other.simStats = analysis.simStats
        /\ \A b \in BOOLEAN :
              memo[b].status = "ok" => memo[b].simStats = analysis.simStats

\* the flag has been toggled on a list with clutter and with other Holdings
C2_Witness ==
    /\ Analysed /\ simulateCleanup
    /\ memo[TRUE].status = "ok" /\ memo[FALSE].status = "ok"
    /\ analysis.simStats.clutterCount > 0
    /\ analysis.simStats.clutterCount < analysis.simStats.originalCount

\* C3: the engine changes no field of the Holdings it is given: the objects
\* of data are as setData received them, the Holdings of the result are those
\* of the working set as given (the merge writes to copies), and an analysis
\* of the same Holdings with the same flag value is identical to the first one
\* - after a recomputation, or after the flag went on and off again.
C3_HoldingsUnchanged ==
    /\ data = given
    /\ Analysed =>
          LET w == WorkingPositions(given, simulateCleanup)
              pd == analysis.processedData
          IN  /\ Len(pd) = Len(w)
              /\ \A k \in 1..Len(pd) :
                    /\ DOMAIN given[w[k]] \subseteq DOMAIN pd[k]
                    /\ [key \in DOMAIN given[w[k]] |-> pd[k][key]] = given[w[k]]
    /\ memo[simulateCleanup].status # "none" => analysis = memo[simulateCleanup]

\* the flag is off again after it was on, on Holdings with a scheme that was
\* merged from two rows
C3_Witness ==
    /\ Analysed /\ ~simulateCleanup
    /\ memo[TRUE].status = "ok" /\ memo[FALSE].status = "ok"
    /\ \E f \in FundsOf(analysis.categoryTree) : Get(f, K_count) = Num(2)
    /\ Len(memo[TRUE].processedData) < Len(analysis.processedData)

\* the labels under which the engine files a Holding
CategoryOf(h) == String(Or(Get(h, K_Category), Str(S_Other)))
SubCategoryOf(h) == String(Or(Get(h, K_SubCategory), Str(S_Other)))
SchemeOf(h) == String(Get(h, K_SchemeName))

\* the positions in d of the rows of the working set that have the category,
\* the sub-category and the scheme name of d[i], in order
RowsLike(d, flag, i) ==
    SelectSeq(WorkingPositions(d, flag),
              LAMBDA j : /\ CategoryOf(d[j]) = CategoryOf(d[i])
                         /\ SubCategoryOf(d[j]) = SubCategoryOf(d[i])
                         /\ SchemeOf(d[j]) = SchemeOf(d[i]))

\* the sum of field k over the rows of d at the positions ps[lo..hi]
RECURSIVE RowSum(_, _, _, _, _)
RowSum(d, k, ps, lo, hi) ==
    IF lo = hi THEN Get(d[ps[lo]], k)
    ELSE Add(RowSum(d, k, ps, lo, (lo + hi) \div 2),
             RowSum(d, k, ps, (lo + hi) \div 2 + 1, hi))

\* where the tree holds a fund of the scheme of h: category, sub-category and
\* fund positions
FundsFor(tree, h) ==
    {p \in UNION {UNION {{<<c, j, f>> : f \in 1..Len(tree[c].subCategories[j].funds)} :
                            j \in 1..Len(tree[c].subCategories)} : c \in 1..Len(tree)} :
        /\ tree[p[1]].name = CategoryOf(h)
        /\ tree[p[1]].subCategories[p[2]].name = SubCategoryOf(h)
        /\ SchemeOf(tree[p[1]].subCategories[p[2]].funds[p[3]]) = SchemeOf(h)}

\* C4: for a scheme name that occurs N >= 1 times in one (category,
\* sub-category) pair of the working set, the category tree holds exactly one
\* fund, whose current value, invested value, returns and units are the sums
\* over the N rows and whose absolute return is computed from the merged
\* sums, (current - invested) / invested * 100, or 0 when the merged invested
\* value is not positive.
C4_MergedFund ==
    Analysed =>
        \A i \in 1..Len(data) :
            InWorkingSet(data[i], simulateCleanup) =>
                LET tree == analysis.categoryTree
                    at == FundsFor(tree, data[i])
                    p == CHOOSE q \in at : TRUE
                    fund == tree[p[1]].subCategories[p[2]].funds[p[3]]
                    ps == RowsLike(data, simulateCleanup, i)
                    sum(k) == RowSum(data, k, ps, 1, Len(ps))
                    mc == sum(K_CurrentValue)
                    mi == sum(K_InvestedValue)
                IN  /\ Cardinality(at) = 1
                    /\ Get(fund, K_CurrentValue) = mc
                    /\ Get(fund, K_InvestedValue) = mi
                    /\ Get(fund, K_Returns) = sum(K_Returns)
                    /\ Get(fund, K_Units) = sum(K_Units)
                    /\ Get(fund, K_count) = Num(Len(ps))
                    /\ Get(fund, K_absReturn)
                         = (IF Gt(mi, Num(0))
                            THEN Mul(Div(Sub(mc, mi), mi), Num(100)) ELSE Num(0))

\* a fund merged from several rows whose own percentages differ from the
\* percentage of the merged fund
C4_Witness ==
    /\ Analysed
    /\ \E i \in 1..Len(data) :
          /\ InWorkingSet(data[i], simulateCleanup)
          /\ Len(RowsLike(data, simulateCleanup, i)) >= 2
          /\ \E p \in FundsFor(analysis.categoryTree, data[i]) :
                LET fund == analysis.categoryTree[p[1]].subCategories[p[2]].funds[p[3]]
                IN  /\ Get(fund, K_absReturn) # Get(Mapped(data[i]), K_absReturn)
                    /\ Gt(Get(fund, K_InvestedValue), Num(0))

\* the (category, sub-category) pairs of the working set of d
GroupsOf(d, flag) ==
    {<<CategoryOf(d[i]), SubCategoryOf(d[i])>> :
        i \in {j \in 1..Len(d) : InWorkingSet(d[j], flag)}}

\* the distinct scheme names of the working set of d in group g
SchemesOf(d, flag, g) ==
    {SchemeOf(d[i]) :
        i \in {j \in 1..Len(d) : /\ InWorkingSet(d[j], flag)
                                 /\ CategoryOf(d[j]) = g[1]
                                 /\ SubCategoryOf(d[j]) = g[2]}}

\* the positions in the plan of the entries made for group g
EntriesFor(plan, g) ==
    {e \in 1..Len(plan) : /\ plan[e].category = g[2]
                          /\ CategoryOf(plan[e].winner) = g[1]}

C6_HealthScore ==
    Analysed =>
        /\ analysis.healthScore.score \in 0..100
        /\ (/\ \A i \in 1..Len(data) :
                  /\ ~Lt(Get(data[i], K_CurrentValue), Num(ClutterLimit))
                  /\ ~Lt(Get(data[i], K_Returns), Num(0))
            /\ Len(data) <= SizeLimit1)
           => /\ analysis.healthScore.score = 100
              /\ analysis.healthScore.label = "Excellent"

\* exactly 20 Holdings, none under 5000 and none at a loss, score 100
C6_Witness ==
    /\ Analysed
    /\ Len(data) = SizeLimit1
    /\ \A i \in 1..Len(data) :
          /\ Ge(Get(data[i], K_CurrentValue), Num(ClutterLimit))
          /\ Ge(Get(data[i], K_Returns), Num(0))
    /\ analysis.healthScore = [score |-> 100, label |-> "Excellent"]

\* C9: the engine completes without raising for every list of Holdings that
\* normalize can emit from a grid of strings and numbers, for both flag values.
C9_NeverRaises ==
    /\ analysis.status # "raised"
    /\ data # NoData => \A b \in BOOLEAN : analyze(data, b).status = "ok"

\* C10: with the flag on, no Holding under 5000 contributes to an output other
\* than the simulation statistics: the working set has originalCount minus
\* clutterCount Holdings, all of at least 5000, the clutter list is empty, and
\* the totals, the loss makers and the funds of the tree come from Holdings of
\* at least 5000 only.
C10_SimulatedWorkingSet ==
    (Analysed /\ simulateCleanup) =>
        LET kept == SelectSeq([i \in 1..Len(data) |-> i],
                       LAMBDA i : Ge(Get(data[i], K_CurrentValue), Num(ClutterLimit)))
            names == {SchemeOf(data[kept[k]]) : k \in 1..Len(kept)}
        IN  /\ Len(analysis.processedData)
                 = analysis.simStats.originalCount - analysis.simStats.clutterCount
            /\ \A k \in 1..Len(analysis.processedData) :
                  Ge(Get(analysis.processedData[k], K_CurrentValue), Num(ClutterLimit))
            /\ analysis.clutter = <<>>
            /\ analysis.totalCurr = WorkingSum(data, K_CurrentValue, TRUE, 1, Len(data))
            /\ analysis.totalInv = WorkingSum(data, K_InvestedValue, TRUE, 1, Len(data))
            /\ \A k \in 1..Len(analysis.lossMakers) :
                  Ge(Get(analysis.lossMakers[k], K_CurrentValue), Num(ClutterLimit))
            /\ \A f \in FundsOf(analysis.categoryTree) : SchemeOf(f) \in names

-----------------------------------------------------------------------------
(* Properties of degenerate inputs *)

\* every number of every Holding of d is zero
AllZero(d) == \A i \in 1..Len(d) : \A k \in NumericFields : Get(d[i], k) = Num(0)

\* the analysis r has zero totals and an empty comparison
ZeroTotals(r) ==
    /\ r.status = "ok"
    /\ r.totalInv = Num(0) /\ r.totalCurr = Num(0) /\ r.totalReturns = Num(0)
    /\ r.absReturn = Num(0)
    /\ r.comparisonData = <<>>

\* the result that is claimed for a degenerate input
DegenerateResult(r) ==
    /\ ZeroTotals(r)
    /\ r.consolidationPlan = <<>>
    /\ r.healthScore = [score |-> 100, label |-> "Excellent"]

Least(a, b) == IF a < b THEN a ELSE b

\* the score of n Holdings of value zero, none at a loss, w of them in the
\* working set
ZeroScore(n, w) ==
    100 - Least(20, 2 * n) - (IF w > SizeLimit1 THEN 10 ELSE 0)
        - (IF w > SizeLimit2 THEN 10 ELSE 0)

-----------------------------------------------------------------------------
(* Properties of the benchmark comparison *)

\* the substrings that stand for a benchmark, in the order of their test, and
\* the table key each stands for
BenchWords == <<S_Large, S_Small, S_Mid, S_Flexi, S_Debt>>
BenchWordKeys == <<S_LargeCap, S_SmallCap, S_MidCap, S_FlexiCap, S_Debt>>

\* the keys of the benchmark table
BenchTableKeys == {BENCHMARKS[i].k : i \in 1..Len(BENCHMARKS)}

\* the table key of a label by the precedence of the claim
ResolvedKey(label) ==
    LET found == {w \in 1..Len(BenchWords) : includes(label, BenchWords[w])}
    IN  IF label \in BenchTableKeys THEN label
        ELSE IF found # {} THEN BenchWordKeys[CHOOSE w \in found : \A x \in found : w <= x]
        ELSE S_Other

\* C12: for each entry of the benchmark comparison the benchmark is the table
\* entry of the sub-category label itself when the label is a key of the
\* table; otherwise that of the first of "Large", "Small", "Mid", "Flexi",
\* "Debt", in this order, that the label contains (Large Cap, Small Cap, Mid
\* Cap, Flexi Cap, Debt); otherwise that of "Other"; and benchXIRR is the
\* return of that entry.
C12_BenchmarkPrecedence ==
    Analysed =>
        \A e \in 1..Len(analysis.comparisonData) :
            LET entry == analysis.comparisonData[e]
                bench == Own(BENCHMARKS, ResolvedKey(entry.category))
            IN  /\ entry.benchXIRR = bench.return
                /\ entry.benchName = bench.name

\* a comparison with a label that holds "Mid" and "Small", resolved to Small
\* Cap, next to a label that is a key of the table and one that resolves to
\* "Other"
C12_Witness ==
    /\ Analysed
    /\ \E e \in 1..Len(analysis.comparisonData) :
          LET entry == analysis.comparisonData[e]
          IN  /\ includes(entry.category, S_Mid) /\ includes(entry.category, S_Small)
              /\ entry.category \notin BenchTableKeys
              /\ entry.benchXIRR = Own(BENCHMARKS, S_SmallCap).return
    /\ \E e \in 1..Len(analysis.comparisonData) :
          analysis.comparisonData[e].category = S_ELSS
    /\ \E e \in 1..Len(analysis.comparisonData) :
          /\ ResolvedKey(analysis.comparisonData[e].category) = S_Other
          /\ analysis.comparisonData[e].category # S_Other

\* the positions in d of the Holdings of the working set with the label and
\* with an XIRR that is a number other than zero, in order
WeightRows(d, flag, label) ==
    SelectSeq(WorkingPositions(d, flag),
              LAMBDA j : /\ SubCategoryOf(d[j]) = label
                         /\ Get(d[j], K_XIRR).t \in {"num", "inf"}
                         /\ Get(d[j], K_XIRR) # Num(0))

\* the sum of the current values of these Holdings
SumWeight(d, flag, label) ==
    IF WeightRows(d, flag, label) = <<>> THEN Num(0)
    ELSE RowSum(d, K_CurrentValue, WeightRows(d, flag, label),
                1, Len(WeightRows(d, flag, label)))

\* the sub-category labels of the working set of d
LabelsOf(d, flag) ==
    {SubCategoryOf(d[i]) : i \in {j \in 1..Len(d) : InWorkingSet(d[j], flag)}}

\* C13: the benchmark comparison holds one entry for each sub-category label
\* of the working set whose sumWeight, the sum of current value over its
\* Holdings with an XIRR other than zero, is above 0, and no entry for another
\* label; the entries come by sumWeight, largest first.
C13_ComparisonEntries ==
    Analysed =>
        LET cmp == analysis.comparisonData
            labels == {l \in LabelsOf(data, simulateCleanup) :
                          Gt(SumWeight(data, simulateCleanup, l), Num(0))}
        IN  /\ {cmp[e].category : e \in 1..Len(cmp)} = labels
            /\ Len(cmp) = Cardinality(labels)
            /\ \A e \in 1..Len(cmp) :
                  cmp[e].weight = SumWeight(data, simulateCleanup, cmp[e].category)
            /\ \A e \in 1..Len(cmp) - 1 : Ge(cmp[e].weight, cmp[e + 1].weight)

\* two entries in an order that is not that of the rows, with a label without
\* entry next to them: its only Holding has no XIRR
C13_Witness ==
    /\ Analysed
    /\ LET cmp == analysis.comparisonData
       IN  /\ Len(cmp) >= 2
           /\ Gt(cmp[1].weight, cmp[2].weight)
           /\ \E i, j \in 1..Len(data) :
                 /\ i < j
                 /\ SubCategoryOf(data[i]) = cmp[2].category
                 /\ SubCategoryOf(data[j]) = cmp[1].category
           /\ \E l \in LabelsOf(data, simulateCleanup) :
                 /\ \A e \in 1..Len(cmp) : cmp[e].category # l
                 /\ WeightRows(data, simulateCleanup, l) = <<>>

-----------------------------------------------------------------------------
(* Properties of the consolidation plan *)

\* the ranking key of a fund: its XIRR when that is a number other than zero,
\* its absolute return otherwise
RankKey(f) ==
    IF Get(f, K_XIRR).t \in {"num", "inf"} /\ Get(f, K_XIRR) # Num(0)
    THEN Get(f, K_XIRR) ELSE Get(f, K_absReturn)

\* the fund lists of the tree for the group of a plan entry
FundListsOf(tree, entry) ==
    {tree[p[1]].subCategories[p[2]].funds :
        p \in {q \in UNION {{<<c, j>> : j \in 1..Len(tree[c].subCategories)} :
                               c \in 1..Len(tree)} :
                  /\ tree[q[1]].name = CategoryOf(entry.winner)
                  /\ tree[q[1]].subCategories[q[2]].name = entry.category}}

\* the funds of a plan entry as ranked: the winner, then the others
Ranked(entry) == <<entry.winner>> \o entry.others

\* the sum of the current values of funds fs[1..n], from the left
RECURSIVE ValueSum(_, _)
ValueSum(fs, n) ==
    IF n = 0 THEN Num(0)
    ELSE Add(ValueSum(fs, n - 1), Get(fs[n], K_CurrentValue))

\* C14: in every entry of the consolidation plan the winner is a merged fund
\* of the group with the largest ranking key (the XIRR of the fund when it is
\* present and not zero, its absolute return otherwise), the other funds of
\* the group are the others, in an order in which the key never increases,
\* and potentialMoveValue is the sum of the current values of the others.
C14_PlanRanking ==
    Analysed =>
        \A e \in 1..Len(analysis.consolidationPlan) :
            LET entry == analysis.consolidationPlan[e]
                lists == FundListsOf(analysis.categoryTree, entry)
                funds == CHOOSE l \in lists : TRUE
                ranked == Ranked(entry)
            IN  /\ Cardinality(lists) = 1
                /\ Len(ranked) = Len(funds)
                /\ {ranked[i] : i \in 1..Len(ranked)} = {funds[i] : i \in 1..Len(funds)}
                /\ \A i \in 1..Len(funds) : Ge(RankKey(entry.winner), RankKey(funds[i]))
                /\ \A i \in 1..Len(entry.others) - 1 :
                      Ge(RankKey(entry.others[i]), RankKey(entry.others[i + 1]))
                /\ entry.potentialMoveValue = ValueSum(entry.others, Len(entry.others))

\* the first row of the working set of d with the category, the sub-category
\* and the scheme of fund f
FirstRow(d, flag, f) ==
    LET rows == {i \in 1..Len(d) : /\ InWorkingSet(d[i], flag)
                                   /\ CategoryOf(d[i]) = CategoryOf(f)
                                   /\ SubCategoryOf(d[i]) = SubCategoryOf(f)
                                   /\ SchemeOf(d[i]) = SchemeOf(f)}
    IN  CHOOSE i \in rows : \A j \in rows : i <= j

\* the position of fund f in a fund list
PositionIn(funds, f) == CHOOSE k \in 1..Len(funds) : funds[k] = f

\* funds f and g have the same ranking key, a number
Tied(f, g) == IsNum(RankKey(f)) /\ RankKey(f) = RankKey(g)

SchemesUnder(d, flag, label) ==
    {SchemeOf(d[i]) : i \in {j \in 1..Len(d) : /\ InWorkingSet(d[j], flag)
                                               /\ SubCategoryOf(d[j]) = label}}

\* the positions in the plan of the entries with a label
EntriesLabelled(plan, label) == {e \in 1..Len(plan) : plan[e].category = label}

LargeGroups(d, flag) ==
    {g \in GroupsOf(d, flag) : Cardinality(SchemesOf(d, flag, g)) > ConsolidationLimit}

-----------------------------------------------------------------------------
(* Properties of the CSV reader and of an upload *)

\* C17: parseCSVText splits a line so that a comma in a quoted value does not
\* end the field, and a doubled quote in a quoted value gives one quote
\* character in the field and leaves the quote state as it is: the rows it
\* hands on have the cells of the file, each with its text.
C17_CsvFields ==
    (reading # <<>> /\ Head(reading).kind = "csv") =>
        LET grid == GridOf(Head(reading))
            rows == CsvRows(CsvTextOf(Head(reading)))
        IN  /\ Len(rows) = Len(grid)
            /\ \A i \in 1..Len(grid) :
                  /\ Len(rows[i]) = Len(grid[i])
                  /\ \A j \in 1..Len(grid[i]) : rows[i][j] = Str(String(grid[i][j]))

\* the messages for a file without Holdings, lines 1207 and 1217
NoDataFound == {"No valid data found.", "No data found."}

-----------------------------------------------------------------------------
(* Properties of the health score *)

\* the Holdings of d under 5000, those of the working set at a loss, and the
\* size of the working set
ClutterCount(d) ==
    Cardinality({i \in 1..Len(d) : Lt(Get(d[i], K_CurrentValue), Num(ClutterLimit))})
LossCount(d, flag) ==
    Cardinality({i \in 1..Len(d) : /\ InWorkingSet(d[i], flag)
                                   /\ Lt(Get(d[i], K_Returns), Num(0))})
WorkingSize(d, flag) == Len(WorkingPositions(d, flag))

\* twice the score before it is rounded: the halves of the loss penalty count
TwiceRawScore(c, l, w) ==
    200 - 2 * Least(20, 2 * c) - Least(30, 3 * l)
        - (IF w > SizeLimit1 THEN 20 ELSE 0) - (IF w > SizeLimit2 THEN 20 ELSE 0)

\* the integer nearest to h/2, a half going up, and not below 0
RoundedHalves(h) == IF h + 1 < 0 THEN 0 ELSE (h + 1) \div 2

\* C19: the score is 100 - min(20, 2 * clutterCount) - min(15, 1.5 *
\* lossMakerCount) - 10 for a working set of more than 20 - 10 for one of more
\* than 40, rounded to the nearest integer and kept within 0..100; the half
\* that an odd number of loss makers brings is kept until the rounding.
C19_ScoreFormula ==
    Analysed =>
        /\ analysis.healthScore.score
             = RoundedHalves(TwiceRawScore(ClutterCount(data),
                                           LossCount(data, simulateCleanup),
                                           WorkingSize(data, simulateCleanup)))
        /\ analysis.healthScore.score \in 0..100

\* no clutter and one loss maker: 98.5, which is rounded to 99
C19_Witness ==
    /\ Analysed
    /\ ClutterCount(data) = 0
    /\ LossCount(data, simulateCleanup) = 1
    /\ WorkingSize(data, simulateCleanup) <= SizeLimit1
    /\ analysis.healthScore.score = 99

\* the label of the claim for a score
LabelFor(score) ==
    CASE score < 40 -> "Critical"
      [] 40 <= score /\ score < 60 -> "Poor"
      [] 60 <= score /\ score < 80 -> "Good"
      [] score >= 80 -> "Excellent"

\* C20: the label is "Critical" for a score under 40, "Poor" from 40 to under
\* 60, "Good" from 60 to under 80 and "Excellent" from 80 on, for every score
\* from 0 to 100 and for the score of every analysis.
C20_LabelThresholds ==
    /\ \A score \in 0..100 : HealthLabel(score) = LabelFor(score)
    /\ Analysed => analysis.healthScore.label = LabelFor(analysis.healthScore.score)

\* an analysis with the score 60, which is "Good"
C20_Witness ==
    /\ Analysed
    /\ analysis.healthScore = [score |-> 60, label |-> "Good"]

-----------------------------------------------------------------------------
(* The reported alpha *)

\* the sum of XIRR times current value over the Holdings at rows[lo..hi] of d
RECURSIVE ProductSum(_, _, _, _)
ProductSum(d, rows, lo, hi) ==
    IF lo > hi THEN Num(0)
    ELSE IF lo = hi
         THEN Mul(Get(d[rows[lo]], K_XIRR), Get(d[rows[lo]], K_CurrentValue))
    ELSE Add(ProductSum(d, rows, lo, (lo + hi) \div 2),
             ProductSum(d, rows, (lo + hi) \div 2 + 1, hi))

\* the weighted XIRR of a sub-category label of the working set of d
WeightedXIRR(d, flag, label) ==
    Div(ProductSum(d, WeightRows(d, flag, label), 1, Len(WeightRows(d, flag, label))),
        SumWeight(d, flag, label))

\* C21: in every entry of the benchmark comparison, myXIRR is the weighted
\* XIRR of the sub-category rounded to 2 decimal places, and alpha is that
\* rounded myXIRR minus the benchmark return rounded to 2 decimal places, so
\* that alpha = myXIRR - benchXIRR on the reported values.
C21_AlphaFromReported ==
    Analysed =>
        \A e \in 1..Len(analysis.comparisonData) :
            LET entry == analysis.comparisonData[e]
            IN  /\ entry.myXIRR =
                      toFixed2(WeightedXIRR(data, simulateCleanup, entry.category))
                /\ entry.alpha = Sub(entry.myXIRR, toFixed2(entry.benchXIRR))

-----------------------------------------------------------------------------
(* The weighted XIRR *)

\* the positions in d of the Holdings of the working set with a sub-category
\* label and an XIRR that is finite and not zero
FiniteXirrRows(d, flag, label) ==
    SelectSeq(WorkingPositions(d, flag),
              LAMBDA j : /\ SubCategoryOf(d[j]) = label
                         /\ IsNum(Get(d[j], K_XIRR))
                         /\ Get(d[j], K_XIRR) # Num(0))

\* the sum of the current values of these Holdings
FiniteWeight(d, flag, label) ==
    IF FiniteXirrRows(d, flag, label) = <<>> THEN Num(0)
    ELSE RowSum(d, K_CurrentValue, FiniteXirrRows(d, flag, label),
                1, Len(FiniteXirrRows(d, flag, label)))

\* C22: a Holding whose XIRR is 0, NaN or infinite adds to neither sumProduct
\* nor sumWeight: the weight of a benchmark comparison entry is the sum of
\* current value over the Holdings of its sub-category with a finite XIRR
\* other than zero, its myXIRR is the sum of XIRR times current value over
\* the same Holdings divided by that weight, and a sub-category without such
\* a Holding has no entry.
C22_FiniteXirrOnly ==
    Analysed =>
        \A e \in 1..Len(analysis.comparisonData) :
            LET entry == analysis.comparisonData[e]
                rows == FiniteXirrRows(data, simulateCleanup, entry.category)
            IN  /\ rows # <<>>
                /\ entry.weight = FiniteWeight(data, simulateCleanup, entry.category)
                /\ entry.myXIRR =
                      toFixed2(Div(ProductSum(data, rows, 1, Len(rows)), entry.weight))

-----------------------------------------------------------------------------
(* The rows that become Holdings *)

\* the Holding that the row at position i of a grid makes under header row h
HoldingAt(grid, h, i) == RowObject(Headers(grid[h]), grid[i])

\* the positions of the rows below row h that are accepted: two cells or
\* more, and a Scheme Name that is not empty after coercion
AcceptedRows(grid, h) ==
    SelectSeq([i \in 1..Len(grid) |-> i],
              LAMBDA i : /\ i > h
                         /\ Len(grid[i]) >= 2
                         /\ Truthy(Get(HoldingAt(grid, h, i), K_SchemeName)))

\* C23: normalize emits one Holding for each row after the header that is
\* not empty, has at least 2 cells and has a Scheme Name that is not empty
\* after coercion, and for no other row; the Holdings come in the order of
\* the grid, and there are never more of them than rows after the header.
C23_EmittedRows ==
    reading # <<>> =>
        LET grid == GridRead(Head(reading))
            out == processRawRows(grid)
            q == Qualifying(grid)
            h == CHOOSE i \in q : \A j \in q : i <= j
        IN  q # {} =>
               /\ Len(out) = Len(AcceptedRows(grid, h))
               /\ \A k \in 1..Len(out) :
                     out[k] = HoldingAt(grid, h, AcceptedRows(grid, h)[k])
               /\ Len(out) <= Len(grid) - h

\* a grid with a row of one cell and a row with a blank name below the
\* header, next to two rows that become Holdings
C23_Witness ==
    /\ reading # <<>>
    /\ LET grid == GridRead(Head(reading))
           q == Qualifying(grid)
           h == CHOOSE i \in q : \A j \in q : i <= j
       IN  /\ q # {}
           /\ \E i \in h + 1..Len(grid) : Len(grid[i]) = 1
           /\ \E i \in h + 1..Len(grid) :
                 /\ Len(grid[i]) >= 2
                 /\ ~Truthy(Get(HoldingAt(grid, h, i), K_SchemeName))
           /\ Len(processRawRows(grid)) >= 1
           /\ Len(processRawRows(grid)) < Len(grid) - h

-----------------------------------------------------------------------------
(* The floor of the health score *)

\* C24: the health score is never below 45, for any Holdings and either value
\* of the flag: the penalties are capped at 20, 15, 10 and 10; the label
\* "Critical" and the scores from 0 to 44 are never reached.
C24_ScoreFloor ==
    Analysed =>
        /\ analysis.healthScore.score >= 45
        /\ analysis.healthScore.score \notin 0..44
        /\ analysis.healthScore.label # "Critical"

\* the four penalties in full: ten clutter Holdings or more, ten loss makers
\* or more, a working set of more than 40, and the score 45
C24_Witness ==
    /\ Analysed
    /\ ClutterCount(data) >= 10
    /\ LossCount(data, simulateCleanup) >= 10
    /\ WorkingSize(data, simulateCleanup) > SizeLimit2
    /\ analysis.healthScore.score = 45
    /\ analysis.healthScore.label = "Poor"

-----------------------------------------------------------------------------
(* The health score under simulation *)

\* C25: with the flag on, no Holding of the working set is clutter, yet the
\* clutter penalty of the score is min(20, 2 * k) for the k clutter Holdings
\* of the whole list, the k of the simulation statistics; the penalties for
\* loss makers and for size are those of the filtered working set; and the
\* score is never below the score of the same Holdings with the flag off.
C25_SimulatedScore ==
    (Analysed /\ simulateCleanup) =>
        /\ \A i \in 1..Len(analysis.processedData) :
              ~Lt(Get(analysis.processedData[i], K_CurrentValue), Num(ClutterLimit))
        /\ analysis.clutter = <<>>
        /\ analysis.simStats.clutterCount = ClutterCount(data)
        /\ analysis.healthScore.score
             = RoundedHalves(TwiceRawScore(analysis.simStats.clutterCount,
                                           LossCount(data, TRUE),
                                           WorkingSize(data, TRUE)))
        /\ analyze(given, FALSE).status = "ok" =>
              analysis.healthScore.score >= analyze(given, FALSE).healthScore.score

\* the flag is on for a list with clutter: the clutter penalty is still in
\* the score, which is above the score with the flag off
C25_Witness ==
    /\ Analysed /\ simulateCleanup
    /\ ClutterCount(data) > 0
    /\ Len(analysis.processedData) > 0
    /\ analysis.healthScore.score < 100
    /\ analyze(given, FALSE).status = "ok"
    /\ analysis.healthScore.score > analyze(given, FALSE).healthScore.score

-----------------------------------------------------------------------------
(* Conservation of value *)

\* every Holding of d has a finite current value
FiniteValues(d) == \A i \in 1..Len(d) : IsNum(Get(d[i], K_CurrentValue))

\* the sum of the numbers vs[lo..hi]
RECURSIVE Total(_, _, _)
Total(vs, lo, hi) ==
    IF lo > hi THEN Num(0)
    ELSE IF lo = hi THEN vs[lo]
    ELSE Add(Total(vs, lo, (lo + hi) \div 2), Total(vs, (lo + hi) \div 2 + 1, hi))

\* the numbers vs never go up
NonIncreasing(vs) == \A k \in 1..Len(vs) - 1 : Ge(vs[k], vs[k + 1])

CategoryValues(a) == [k \in 1..Len(a.categoryData) |-> a.categoryData[k].value]
TreeTotals(tree) == [c \in 1..Len(tree) |-> tree[c].totalVal]
SubTotals(cat) == [j \in 1..Len(cat.subCategories) |-> cat.subCategories[j].totalVal]
FundValues(sub) == [f \in 1..Len(sub.funds) |-> Get(sub.funds[f], K_CurrentValue)]

-----------------------------------------------------------------------------
(* The spelling of the header *)

\* the header text names a numeric column, but not in its canonical spelling
Misspelt(text) ==
    /\ text \notin NumericFields
    /\ toLowerCase(text) \in {toLowerCase(k) : k \in NumericFields}

\* C27: the header row is found without regard to case, but the fields are
\* looked up by their exact names: when no cell of the header row reads
\* exactly "Scheme Name", every row is dropped and normalize returns the empty
\* list; when a cell of the header row names a numeric column in another
\* spelling, the cells of that column are not coerced to numbers: each
\* Holding carries the cell as it is read, under the spelling of the header.
C27_CaseSensitiveLookup ==
    reading # <<>> =>
        LET grid == GridRead(Head(reading))
            out == processRawRows(grid)
            q == Qualifying(grid)
            h == CHOOSE i \in q : \A j \in q : i <= j
        IN  q # {} =>
               /\ (\A j \in 1..Len(grid[h]) : HeaderText(grid[h][j]) # K_SchemeName)
                     => out = <<>>
               /\ \A j \in 1..Len(grid[h]) :
                     Misspelt(HeaderText(grid[h][j])) =>
                        /\ Len(out) = Len(AcceptedRows(grid, h))
                        /\ \A r \in 1..Len(out) :
                              Get(out[r], HeaderText(grid[h][j]))
                                = CellAt(grid[AcceptedRows(grid, h)[r]], j)

\* a header that reads "Current value", above a row whose cell in that
\* column is the text 6,000: the Holding carries the text
C27_Witness ==
    /\ reading # <<>>
    /\ LET grid == GridRead(Head(reading))
           out == processRawRows(grid)
           q == Qualifying(grid)
           h == CHOOSE i \in q : \A j \in q : i <= j
       IN  /\ q # {}
           /\ Len(out) >= 1
           /\ \E j \in 1..Len(grid[h]) :
                 /\ Misspelt(HeaderText(grid[h][j]))
                 /\ Get(out[1], HeaderText(grid[h][j])).t = "str"
                 /\ Get(out[1], K_CurrentValue) = Undefined

\* a header that reads "SCHEME NAME" above rows with names: no Holding
C27_WitnessDropped ==
    /\ reading # <<>>
    /\ LET grid == GridRead(Head(reading))
           q == Qualifying(grid)
           h == CHOOSE i \in q : \A j \in q : i <= j
       IN  /\ q # {}
           /\ \A j \in 1..Len(grid[h]) : HeaderText(grid[h][j]) # K_SchemeName
           /\ \E j \in 1..Len(grid[h]) :
                 /\ toLowerCase(HeaderText(grid[h][j])) = toLowerCase(K_SchemeName)
                 /\ \E i \in h + 1..Len(grid) : Truthy(CellAt(grid[i], j))
           /\ processRawRows(grid) = <<>>

-----------------------------------------------------------------------------
(* Overlapping loads, the flag across datasets, and the end of loading *)

\* the Holdings that a load hands to setData
DataOf(load) == IF load.kind = "sample" THEN SAMPLE_DATA ELSE Parsed(load)

\* C28: when a load was started while another was pending and both have
\* ended well, the data shown at the end is that of the load started last,
\* in whatever order the two ended; and loading is true as long as one of the
\* overlapping loads is pending.
C28_LastStartedWins ==
    [][/\ (/\ overlapped /\ Mounted /\ failed' = 0
           /\ InFlight = 1 /\ InFlight' = 0
           /\ DataOf(lastStarted) # <<>>)
          => data' = DataOf(lastStarted)
       /\ (overlapped' /\ InFlight' > 0 /\ Mounted') => loading']_vars

\* C29: the first analysis of a dataset loaded after the file was closed is
\* made with simulateCleanup false, however the flag was toggled on the
\* dataset before: when data goes from null to a dataset the flag is false.
C29_FreshFlag ==
    [][(data = NoData /\ data' # NoData) => ~simulateCleanup']_vars

\* C30: loading is never left true for ever: whenever loading is true a load
\* is still pending, whose end sets it to false - whether the read ends well
\* and parses, the parse throws, the spreadsheet engine is not ready, or the
\* read itself fails.
C30_LoadingEnds == loading => InFlight > 0

=============================================================================
